---- MODULE Spec2Model ----
(***************************************************************************)
(* Schema migration manager of tyl-qdrant-adapter (src/src/migration.rs)   *)
(* running against the in-memory vector store (src/src/mock.rs).           *)
(*                                                                         *)
(* A backend value b is [collections, vectors]: the two tables of          *)
(* MockQdrantAdapter.  Every manager operation is a pure operator from a   *)
(* backend value to a result [ok, b, value | error, ...], composed in the  *)
(* order of the Rust code, `?` being an early return.                      *)
(***************************************************************************)
EXTENDS Integers, Sequences, FiniteSets, TLC

VARIABLES collections, vectors, call

vars == <<collections, vectors, call>>

-----------------------------------------------------------------------------
(* Bounds of the explored inputs.                                          *)

NumVersions == 2

-----------------------------------------------------------------------------
(* Program constants.                                                      *)

migration_collection == "_tyl_migrations"
TestCollection == "test_migration"
HistoryLimit == 1000
PactSearchLimit == 5

-----------------------------------------------------------------------------
(* Finite maps (HashMap).                                                  *)

EmptyMap == <<>>

Put(f, k, v) == [x \in (DOMAIN f) \cup {k} |-> IF x = k THEN v ELSE f[x]]

Remove(f, k) == [x \in (DOMAIN f) \ {k} |-> f[x]]

Range(f) == {f[x] : x \in DOMAIN f}

Min(a, b) == IF a < b THEN a ELSE b

-----------------------------------------------------------------------------
(* Results and errors.                                                     *)

Ok(v) == [ok |-> TRUE, value |-> v]

Err(e) == [ok |-> FALSE, error |-> e]

ValidationError(field, message) ==
    [kind |-> "validation", field |-> field, message |-> message]

NotFoundError(what, id) ==
    [kind |-> "not_found", field |-> what, message |-> <<id>>]

CollectionNotFound(name) ==
    [kind |-> "collection_not_found", field |-> "", message |-> <<name>>]

StorageFailed(message) ==
    [kind |-> "storage_failed", field |-> "", message |-> message]

Contains(message, token) == \E i \in DOMAIN message : message[i] = token

-----------------------------------------------------------------------------
(* semver::Version as <<major, minor, patch>>.                             *)

VersionLess(a, b) ==
    \/ a[1] < b[1]
    \/ a[1] = b[1] /\ a[2] < b[2]
    \/ a[1] = b[1] /\ a[2] = b[2] /\ a[3] < b[3]

VersionToString(v) == <<v[1], ".", v[2], ".", v[3]>>

IsVersionString(s) == Len(s) = 5 /\ s[2] = "." /\ s[4] = "."

ParseVersion(s) == <<s[1], s[3], s[5]>>

-----------------------------------------------------------------------------
(* serde_json::to_value / from_value of a SchemaMigration.                 *)

SerializeMigration(m) ==
    [version |-> VersionToString(m.version),
     collection_changes |-> m.collection_changes,
     metadata |->
        [dependencies |->
            [i \in DOMAIN m.metadata.dependencies |->
                VersionToString(m.metadata.dependencies[i])],
         reversible |-> m.metadata.reversible],
     pact_contracts |-> m.pact_contracts]

CanDeserialize(j) ==
    /\ IsVersionString(j.version)
    /\ \A i \in DOMAIN j.metadata.dependencies :
            IsVersionString(j.metadata.dependencies[i])

DeserializeMigration(j) ==
    [version |-> ParseVersion(j.version),
     collection_changes |-> j.collection_changes,
     metadata |->
        [dependencies |->
            [i \in DOMAIN j.metadata.dependencies |->
                ParseVersion(j.metadata.dependencies[i])],
         reversible |-> j.metadata.reversible],
     pact_contracts |-> j.pact_contracts]

-----------------------------------------------------------------------------
(* MockQdrantAdapter: b = [collections |-> name -> config,                 *)
(*                         vectors |-> name -> (id -> Vector)].            *)

NewVector(id) == [id |-> id, metadata |-> EmptyMap]

VectorWithMetadata(id, metadata) == [id |-> id, metadata |-> metadata]

CollectionConfigNew(name, dimension, metric) ==
    [name |-> name, dimension |-> dimension, distance_metric |-> metric]

store_vector(b, collection, vector) ==
    LET existing == IF collection \in DOMAIN b.vectors
                    THEN b.vectors[collection] ELSE EmptyMap
    IN [ok |-> TRUE,
        b |-> [b EXCEPT !.vectors =
                  Put(b.vectors, collection, Put(existing, vector.id, vector))]]

get_vector(b, collection, id) ==
    IF collection \in DOMAIN b.vectors
    THEN Ok(IF id \in DOMAIN b.vectors[collection]
            THEN <<b.vectors[collection][id]>> ELSE <<>>)
    ELSE Err(CollectionNotFound(collection))

(* The subsets of S with k members (S itself where it has no more).        *)
SubsetsOfSize(S, k) ==
    IF k >= Cardinality(S) THEN {S}
    ELSE IF k = Cardinality(S) - 1 THEN {S \ {x} : x \in S}
    ELSE {T \in SUBSET S : Cardinality(T) = k}

(* The sets of records search_similar can return without filters: the     *)
(* loop pushes a record and then tests results.len() >= limit, in the      *)
(* iteration order of the HashMap.                                         *)
search_similar(b, collection, limit) ==
    IF collection \in DOMAIN b.vectors
    THEN LET all == Range(b.vectors[collection])
             n == Cardinality(all)
             cap == IF limit = 0 THEN Min(1, n) ELSE Min(limit, n)
         IN {Ok(R) : R \in SubsetsOfSize(all, cap)}
    ELSE {Err(CollectionNotFound(collection))}

delete_vector(b, collection, id) ==
    IF collection \in DOMAIN b.vectors
    THEN [ok |-> TRUE,
          b |-> [b EXCEPT !.vectors =
                    Put(b.vectors, collection, Remove(b.vectors[collection], id))]]
    ELSE [ok |-> FALSE, b |-> b, error |-> CollectionNotFound(collection)]

create_collection(b, config) ==
    IF config.name \in DOMAIN b.collections
    THEN [ok |-> FALSE, b |-> b,
          error |-> StorageFailed(<<"Collection '", config.name, "' already exists">>)]
    ELSE [ok |-> TRUE,
          b |-> [collections |-> Put(b.collections, config.name, config),
                 vectors |-> Put(b.vectors, config.name, EmptyMap)]]

delete_collection(b, name) ==
    [ok |-> TRUE,
     b |-> [collections |-> Remove(b.collections, name),
            vectors |-> Remove(b.vectors, name)]]

-----------------------------------------------------------------------------
(* SchemaMigrationManager over the backend value b.                        *)

Backend == [collections |-> collections, vectors |-> vectors]

(* initialize: create the tracking collection, "already exists" is Ok.     *)
initialize(b) ==
    LET config == CollectionConfigNew(migration_collection, 256, "Cosine")
        r == create_collection(b, config)
    IN IF r.ok THEN [ok |-> TRUE, b |-> r.b]
       ELSE IF Contains(r.error.message, "' already exists")
            THEN [ok |-> TRUE, b |-> r.b]
            ELSE [ok |-> FALSE, b |-> r.b, error |-> r.error]

validate_operation_result(resultOk, status) ==
    CASE resultOk /\ status = "Success" -> [ok |-> TRUE]
      [] ~resultOk /\ status = "Error" -> [ok |-> TRUE]
      [] ~resultOk /\ status = "NotFound" -> [ok |-> TRUE]
      [] resultOk /\ status = "Error" ->
            Err(ValidationError("pact", <<"Expected error but operation succeeded">>))
      [] resultOk /\ status = "NotFound" ->
            Err(ValidationError("pact", <<"Expected not found but operation succeeded">>))
      [] ~resultOk /\ status = "Success" ->
            Err(ValidationError("pact", <<"Expected success but operation failed">>))

validate_pact_interaction(b, interaction) ==
    LET op == interaction.request.operation
        status == interaction.response.status
    IN CASE op = "CreateCollection" ->
              LET r == create_collection(
                          b, CollectionConfigNew(TestCollection, 128, "Cosine"))
                  v == validate_operation_result(r.ok, status)
              IN IF v.ok THEN [ok |-> TRUE, b |-> r.b]
                 ELSE [ok |-> FALSE, b |-> r.b, error |-> v.error]
         [] op = "StoreVector" ->
              LET r == store_vector(
                          b, interaction.request.collection, NewVector(<<"test">>))
                  v == validate_operation_result(r.ok, status)
              IN IF v.ok THEN [ok |-> TRUE, b |-> r.b]
                 ELSE [ok |-> FALSE, b |-> r.b, error |-> v.error]
         [] op = "SearchSimilar" ->
              LET found == \E r \in search_similar(
                              b, interaction.request.collection, PactSearchLimit) : r.ok
              IN IF found
                 THEN IF status # "Success"
                      THEN [ok |-> FALSE, b |-> b, error |->
                              ValidationError("pact",
                                  <<"Expected success but operation succeeded">>)]
                      ELSE [ok |-> TRUE, b |-> b]
                 ELSE IF status = "Success"
                      THEN [ok |-> FALSE, b |-> b, error |->
                              ValidationError("pact",
                                  <<"Expected error but operation succeeded">>)]
                      ELSE [ok |-> TRUE, b |-> b]
         [] OTHER -> [ok |-> TRUE, b |-> b]

RECURSIVE ValidateInteractions(_, _, _)
ValidateInteractions(b, interactions, i) ==
    IF i > Len(interactions) THEN [ok |-> TRUE, b |-> b]
    ELSE LET r == validate_pact_interaction(b, interactions[i])
         IN IF r.ok THEN ValidateInteractions(r.b, interactions, i + 1) ELSE r

validate_single_pact_contract(b, contract) ==
    ValidateInteractions(b, contract.interactions, 1)

RECURSIVE ValidateContractsFrom(_, _, _)
ValidateContractsFrom(b, contracts, i) ==
    IF i > Len(contracts) THEN [ok |-> TRUE, b |-> b]
    ELSE LET r == validate_single_pact_contract(b, contracts[i])
         IN IF r.ok THEN ValidateContractsFrom(r.b, contracts, i + 1) ELSE r

validate_pact_contracts(b, contracts) == ValidateContractsFrom(b, contracts, 1)

(* migrations.sort_by(|a, b| a.version.cmp(&b.version))                     *)
RECURSIVE SortByVersion(_)
SortByVersion(S) ==
    IF S = {} THEN <<>>
    ELSE LET least == CHOOSE m \in S :
                         \A o \in S : ~VersionLess(o.version, m.version)
         IN <<least>> \o SortByVersion(S \ {least})

HistoryOfResults(results) ==
    SortByVersion(
        {DeserializeMigration(v.metadata["migration"]) :
            v \in {w \in results : /\ "migration" \in DOMAIN w.metadata
                                   /\ CanDeserialize(w.metadata["migration"])}})

(* The results get_migration_history can return.                           *)
get_migration_history(b) ==
    {IF r.ok THEN Ok(HistoryOfResults(r.value)) ELSE r :
        r \in search_similar(b, migration_collection, HistoryLimit)}

(* The dependency gate that requires nothing of the history.              *)
ValidateDependenciesAgainst_NothingRequired(history, migration) ==
    [ok |-> TRUE]

ValidateDependenciesAgainst(history, migration) ==
    LET applied_versions == {history[i].version : i \in DOMAIN history}
        deps == migration.metadata.dependencies
        missing == {i \in DOMAIN deps : deps[i] \notin applied_versions}
    IN IF missing = {} THEN [ok |-> TRUE]
       ELSE LET first == CHOOSE i \in missing : \A j \in missing : i <= j
            IN Err(ValidationError("dependencies",
                    <<"Required migration ", VersionToString(deps[first]),
                      " not found">>))

validate_dependencies(b, migration) ==
    {IF h.ok THEN ValidateDependenciesAgainst(h.value, migration) ELSE h :
        h \in get_migration_history(b)}

(* UpdateCollection and RenameCollection reported as carried out.          *)
apply_collection_change_UnsupportedSucceeds(b, change) ==
    CASE change.kind = "CreateCollection" ->
            LET r == create_collection(b, change.config)
            IN IF r.ok
               THEN [ok |-> TRUE, b |-> r.b,
                     value |-> [kind |-> "CollectionCreated", name |-> change.config.name]]
               ELSE r
      [] change.kind = "DeleteCollection" ->
            LET r == delete_collection(b, change.name)
            IN [ok |-> TRUE, b |-> r.b,
                value |-> [kind |-> "CollectionDeleted", name |-> change.name]]
      [] change.kind = "UpdateCollection" ->
            [ok |-> TRUE, b |-> b,
             value |-> [kind |-> "CollectionUpdated", name |-> change.name]]
      [] change.kind = "RenameCollection" ->
            [ok |-> TRUE, b |-> b,
             value |-> [kind |-> "CollectionRenamed", old |-> change.old_name,
                        new |-> change.new_name]]
      [] OTHER ->
            [ok |-> TRUE, b |-> b, value |-> [kind |-> "IndexChanged"]]

apply_collection_change(b, change) ==
    CASE change.kind = "CreateCollection" ->
            LET r == create_collection(b, change.config)
            IN IF r.ok
               THEN [ok |-> TRUE, b |-> r.b,
                     value |-> [kind |-> "CollectionCreated", name |-> change.config.name]]
               ELSE r
      [] change.kind = "DeleteCollection" ->
            LET r == delete_collection(b, change.name)
            IN [ok |-> TRUE, b |-> r.b,
                value |-> [kind |-> "CollectionDeleted", name |-> change.name]]
      [] change.kind = "UpdateCollection" ->
            [ok |-> FALSE, b |-> b, error |->
                ValidationError("update_collection",
                    <<"Collection ", change.name,
                      " update not supported - requires manual migration">>)]
      [] change.kind = "RenameCollection" ->
            [ok |-> FALSE, b |-> b, error |->
                ValidationError("rename_collection",
                    <<"Collection rename from ", change.old_name, " to ",
                      change.new_name, " requires manual migration">>)]
      [] change.kind = "AddIndex" ->
            [ok |-> TRUE, b |-> b,
             value |-> [kind |-> "IndexAdded", collection |-> change.collection,
                        field |-> change.field, index_type |-> change.index_type]]
      [] change.kind = "RemoveIndex" ->
            [ok |-> TRUE, b |-> b,
             value |-> [kind |-> "IndexRemoved", collection |-> change.collection,
                        field |-> change.field]]

(* The loop without its early return: a failed change is skipped.          *)
RECURSIVE ApplyChangesFrom_ContinueAfterFailure(_, _, _, _)
ApplyChangesFrom_ContinueAfterFailure(b, changes, i, results) ==
    IF i > Len(changes) THEN [ok |-> TRUE, b |-> b, results |-> results]
    ELSE LET r == apply_collection_change(b, changes[i])
         IN IF r.ok
            THEN ApplyChangesFrom_ContinueAfterFailure(
                    r.b, changes, i + 1, Append(results, r.value))
            ELSE LET rest == ApplyChangesFrom_ContinueAfterFailure(
                                r.b, changes, i + 1, results)
                 IN [ok |-> FALSE, b |-> rest.b, results |-> results,
                     error |-> r.error]

(* for change in &migration.collection_changes { ...await?; push }         *)
RECURSIVE ApplyChangesFrom(_, _, _, _)
ApplyChangesFrom(b, changes, i, results) ==
    IF i > Len(changes) THEN [ok |-> TRUE, b |-> b, results |-> results]
    ELSE LET r == apply_collection_change(b, changes[i])
         IN IF r.ok
            THEN ApplyChangesFrom(r.b, changes, i + 1, Append(results, r.value))
            ELSE [ok |-> FALSE, b |-> r.b, results |-> results, error |-> r.error]

(* The record keyed by more than the version string.                       *)
record_migration_KeyedByContent(b, migration) ==
    LET metadata == [migration |-> SerializeMigration(migration),
                     type |-> "schema_migration"]
    IN store_vector(
          b, migration_collection,
          VectorWithMetadata(
              VersionToString(migration.version)
                  \o <<"#", Len(migration.collection_changes)>>,
              metadata))

record_migration(b, migration) ==
    LET metadata == [migration |-> SerializeMigration(migration),
                     type |-> "schema_migration"]
    IN store_vector(
          b, migration_collection,
          VectorWithMetadata(VersionToString(migration.version), metadata))

get_migration_record(b, version) ==
    LET r == get_vector(b, migration_collection, VersionToString(version))
    IN IF ~r.ok THEN r
       ELSE IF r.value # <<>> /\ "migration" \in DOMAIN r.value[1].metadata
            THEN IF CanDeserialize(r.value[1].metadata["migration"])
                 THEN Ok(DeserializeMigration(r.value[1].metadata["migration"]))
                 ELSE Err([kind |-> "database", field |-> "",
                           message |-> <<"Invalid migration data">>])
            ELSE Err(NotFoundError("migration", VersionToString(version)))

remove_migration_record(b, version) ==
    delete_vector(b, migration_collection, VersionToString(version))

(* The reverse of CreateCollection reported done without deleting.         *)
apply_reverse_change_KeepsCollection(b, change) ==
    CASE change.kind = "DeleteCollection" ->
            [ok |-> FALSE, b |-> b, error |->
                ValidationError("rollback",
                    <<"Cannot recreate deleted collection ", change.name,
                      " without backup">>)]
      [] OTHER -> [ok |-> TRUE, b |-> b]

apply_reverse_change(b, change) ==
    CASE change.kind = "CreateCollection" ->
            delete_collection(b, change.config.name)
      [] change.kind = "DeleteCollection" ->
            [ok |-> FALSE, b |-> b, error |->
                ValidationError("rollback",
                    <<"Cannot recreate deleted collection ", change.name,
                      " without backup">>)]
      [] OTHER -> [ok |-> TRUE, b |-> b]

(* for change in migration.collection_changes.iter().rev() { ...await?; }  *)
RECURSIVE ApplyReverseChangesFrom(_, _, _)
ApplyReverseChangesFrom(b, changes, i) ==
    IF i < 1 THEN [ok |-> TRUE, b |-> b, reversed |-> Len(changes)]
    ELSE LET r == apply_reverse_change(b, changes[i])
         IN IF r.ok THEN ApplyReverseChangesFrom(r.b, changes, i - 1)
            ELSE [ok |-> FALSE, b |-> r.b, error |-> r.error,
                  reversed |-> Len(changes) - i]

(* apply_migration with a gate that turns away a version that is already  *)
(* recorded.                                                               *)
apply_migration_RejectsRecordedVersion(b, migration) ==
    IF get_migration_record(b, migration.version).ok
    THEN {[ok |-> FALSE, b |-> b, applied |-> <<>>,
           error |-> ValidationError("version", <<"already applied">>)]}
    ELSE {IF ~d.ok
          THEN [ok |-> FALSE, b |-> b, error |-> d.error, applied |-> <<>>]
          ELSE LET c == ApplyChangesFrom(b, migration.collection_changes, 1, <<>>)
               IN IF ~c.ok
                  THEN [ok |-> FALSE, b |-> c.b, error |-> c.error,
                        applied |-> c.results]
                  ELSE LET s == record_migration(c.b, migration)
                       IN [ok |-> TRUE, b |-> s.b,
                           value |-> [version |-> migration.version,
                                      applied_changes |-> c.results,
                                      pact_validation_passed |-> TRUE],
                           applied |-> c.results] :
          d \in validate_dependencies(b, migration)}

(* The outcomes of apply_migration: [ok, b, value | error, applied], where *)
(* applied lists the results of the changes that were carried out.         *)
apply_migration(b, migration) ==
    LET p == validate_pact_contracts(b, migration.pact_contracts)
    IN IF ~p.ok
       THEN {[ok |-> FALSE, b |-> p.b, error |-> p.error, applied |-> <<>>]}
       ELSE {IF ~d.ok
             THEN [ok |-> FALSE, b |-> p.b, error |-> d.error, applied |-> <<>>]
             ELSE LET c == ApplyChangesFrom(p.b, migration.collection_changes, 1, <<>>)
                  IN IF ~c.ok
                     THEN [ok |-> FALSE, b |-> c.b, error |-> c.error,
                           applied |-> c.results]
                     ELSE LET s == record_migration(c.b, migration)
                          IN [ok |-> TRUE, b |-> s.b,
                              value |-> [version |-> migration.version,
                                         applied_changes |-> c.results,
                                         pact_validation_passed |-> TRUE],
                              applied |-> c.results] :
             d \in validate_dependencies(p.b, migration)}

(* rollback_migration without the test of the reversible flag.            *)
rollback_migration_NoReversibleCheck(b, version) ==
    LET g == get_migration_record(b, version)
    IN IF ~g.ok THEN [ok |-> FALSE, b |-> b, error |-> g.error, reversed |-> 0]
       ELSE LET c == ApplyReverseChangesFrom(
                        b, g.value.collection_changes,
                        Len(g.value.collection_changes))
            IN IF ~c.ok THEN c
               ELSE LET d == remove_migration_record(c.b, version)
                    IN IF d.ok
                       THEN [ok |-> TRUE, b |-> d.b, reversed |-> c.reversed]
                       ELSE [ok |-> FALSE, b |-> d.b, error |-> d.error,
                             reversed |-> c.reversed]

rollback_migration(b, version) ==
    LET g == get_migration_record(b, version)
    IN IF ~g.ok THEN [ok |-> FALSE, b |-> b, error |-> g.error, reversed |-> 0]
       ELSE IF ~g.value.metadata.reversible
            THEN [ok |-> FALSE, b |-> b, reversed |-> 0, error |->
                    ValidationError("rollback",
                        <<"Migration ", VersionToString(version),
                          " is not reversible">>)]
            ELSE LET c == ApplyReverseChangesFrom(
                             b, g.value.collection_changes,
                             Len(g.value.collection_changes))
                 IN IF ~c.ok THEN c
                    ELSE LET d == remove_migration_record(c.b, version)
                         IN IF d.ok
                            THEN [ok |-> TRUE, b |-> d.b, reversed |-> c.reversed]
                            ELSE [ok |-> FALSE, b |-> d.b, error |-> d.error,
                                  reversed |-> c.reversed]

-----------------------------------------------------------------------------
(* Inputs of the callers.                                                  *)

UserCollection == "docs"

VersionOf(i) == <<(i + 1) \div 2, (i + 1) % 2, 0>>

Versions == {VersionOf(i) : i \in 1..NumVersions}

SeqsUpTo(S, n) == UNION {[1..k -> S] : k \in 0..n}

CreateCollection(name, dimension, metric) ==
    [kind |-> "CreateCollection", config |-> CollectionConfigNew(name, dimension, metric)]

DeleteCollection(name) == [kind |-> "DeleteCollection", name |-> name]

UpdateCollection(name) ==
    [kind |-> "UpdateCollection", name |-> name, dimension_change |-> 512]

RenameCollection(old, new) ==
    [kind |-> "RenameCollection", old_name |-> old, new_name |-> new]

AddIndex(collection, field, type) ==
    [kind |-> "AddIndex", collection |-> collection, field |-> field, index_type |-> type]

RemoveIndex(collection, field) ==
    [kind |-> "RemoveIndex", collection |-> collection, field |-> field]

(* The change lists the callers submit: every kind of change on its own,   *)
(* a change on the tracking collection itself, and the lists in which a    *)
(* change fails after, or before, one that takes effect.                   *)
CreateDocs == CreateCollection(UserCollection, 768, "Cosine")

ChangeLists ==
    {<<>>,
     <<CreateDocs>>,
     <<DeleteCollection(UserCollection)>>,
     <<CreateCollection(migration_collection, 256, "Cosine")>>,
     <<DeleteCollection(migration_collection)>>,
     <<UpdateCollection(UserCollection)>>,
     <<RenameCollection(UserCollection, "docs_v2")>>,
     <<AddIndex(UserCollection, "title", "Text"), RemoveIndex(UserCollection, "title")>>,
     <<CreateDocs, UpdateCollection(UserCollection)>>,
     <<CreateDocs, UpdateCollection(UserCollection), DeleteCollection(UserCollection)>>,
     <<CreateDocs, CreateDocs>>,
     <<UpdateCollection(UserCollection), CreateDocs>>,
     <<DeleteCollection(UserCollection), CreateDocs>>,
     <<DeleteCollection(migration_collection),
       CreateCollection(migration_collection, 256, "Cosine")>>}

Interaction(op, collection, status) ==
    [request |-> [operation |-> op, collection |-> collection],
     response |-> [status |-> status]]

Contract(interactions) ==
    [consumer |-> "document-service", provider |-> "qdrant-adapter",
     interactions |-> interactions]

(* create_sample_pact_contract of examples/migration_example.rs.           *)
SampleContract ==
    Contract(<<Interaction("CreateCollection", UserCollection, "Success"),
               Interaction("StoreVector", UserCollection, "Success"),
               Interaction("SearchSimilar", UserCollection, "Success")>>)

Contracts ==
    {Contract(<<it>>) :
        it \in {Interaction("CreateCollection", UserCollection, "Success"),
                Interaction("CreateCollection", UserCollection, "Error"),
                Interaction("StoreVector", migration_collection, "Success"),
                Interaction("StoreVector", UserCollection, "Error"),
                Interaction("SearchSimilar", UserCollection, "Success"),
                Interaction("SearchSimilar", UserCollection, "NotFound"),
                Interaction("ListCollections", UserCollection, "Error"),
                Interaction("GetVector", UserCollection, "Success")}}
    \cup {SampleContract}

Migration(version, changes, deps, reversible, contracts) ==
    [version |-> version,
     collection_changes |-> changes,
     metadata |-> [dependencies |-> deps, reversible |-> reversible],
     pact_contracts |-> contracts]

(* Migrations without contracts.                                           *)
SchemaMigrations ==
    {Migration(v, ch, <<>>, TRUE, <<>>) : v \in Versions, ch \in ChangeLists}
    \cup
    {Migration(v, ch, <<>>, FALSE, <<>>) :
        v \in Versions, ch \in {<<CreateDocs>>, <<DeleteCollection(UserCollection)>>}}
    \cup
    {Migration(v, ch, <<d>>, TRUE, <<>>) :
        v \in Versions, d \in Versions,
        ch \in {<<CreateDocs>>, <<DeleteCollection(migration_collection)>>}}

(* Migrations that carry one contract.                                     *)
ContractMigrations ==
    {Migration(v, <<CreateDocs>>, <<>>, TRUE, <<c>>) : v \in Versions, c \in Contracts}
    \cup
    {Migration(v, <<CreateDocs>>, <<d>>, TRUE, <<SampleContract>>) :
        v \in Versions, d \in Versions}

-----------------------------------------------------------------------------
(* The state machine: one caller, one call at a time.  call holds the      *)
(* call that has just completed, with its argument, the value returned     *)
(* and the backend it started from, until its caller has taken the result. *)

Idle == [op |-> "idle"]

Completed(op, arg, pre, r, done) ==
    [op |-> op, arg |-> arg, pre |-> pre, done |-> done,
     ret |-> IF r.ok
             THEN Ok(IF "value" \in DOMAIN r THEN r.value ELSE <<>>)
             ELSE Err(r.error)]

Init ==
    /\ collections = EmptyMap
    /\ vectors = EmptyMap
    /\ call = Idle

Initialize ==
    /\ call = Idle
    /\ LET r == initialize(Backend)
       IN /\ collections' = r.b.collections
          /\ vectors' = r.b.vectors
          /\ call' = Completed("initialize", <<>>, Backend, r, <<>>)

ApplyMigrationFrom(catalogue) ==
    /\ call = Idle
    /\ \E m \in catalogue :
         \E r \in apply_migration(Backend, m) :
            /\ collections' = r.b.collections
            /\ vectors' = r.b.vectors
            /\ call' = Completed("apply_migration", m, Backend, r, r.applied)

RollbackMigration ==
    /\ call = Idle
    /\ \E v \in Versions :
         LET r == rollback_migration(Backend, v)
         IN /\ collections' = r.b.collections
            /\ vectors' = r.b.vectors
            /\ call' = Completed("rollback_migration", v, Backend, r, r.reversed)

ReadMigrationHistory ==
    /\ call = Idle
    /\ \E r \in get_migration_history(Backend) :
         call' = [op |-> "get_migration_history", arg |-> <<>>, pre |-> Backend,
                  done |-> <<>>, ret |-> r]
    /\ UNCHANGED <<collections, vectors>>

Return ==
    /\ call # Idle
    /\ call' = Idle
    /\ UNCHANGED <<collections, vectors>>

ApplyMigration == ApplyMigrationFrom(SchemaMigrations)

ApplyContractMigration == ApplyMigrationFrom(ContractMigrations)

Next ==
    \/ Initialize
    \/ ApplyMigration
    \/ RollbackMigration
    \/ ReadMigrationHistory
    \/ Return

Spec == Init /\ [][Next]_vars

NextPact ==
    \/ Initialize
    \/ ApplyContractMigration
    \/ RollbackMigration
    \/ ReadMigrationHistory
    \/ Return

SpecPact == Init /\ [][NextPact]_vars

TypeOK == call.op \in {"idle", "initialize", "apply_migration",
                       "rollback_migration", "get_migration_history",
                       "qdrant_initialize", "qdrant_apply_migration",
                       "qdrant_rollback_migration",
                       "qdrant_get_migration_history",
                       "concurrent_apply_migration",
                       "build_filter", "search_similar",
                       "build_complex_filter", "builder", "mock", "locks",
                       "history_scan"}

-----------------------------------------------------------------------------
(* What the claims speak about.                                            *)

(* The migrations persisted in the tracking collection of b.               *)
RecordedMigrations(b) ==
    IF migration_collection \in DOMAIN b.vectors
    THEN {DeserializeMigration(v.metadata["migration"]) :
            v \in {w \in Range(b.vectors[migration_collection]) :
                      "migration" \in DOMAIN w.metadata}}
    ELSE {}

RecordedVersions(b) == {m.version : m \in RecordedMigrations(b)}

HistoryReadable(b) == migration_collection \in DOMAIN b.vectors

MissingDependencies(b, m) ==
    {m.metadata.dependencies[i] : i \in DOMAIN m.metadata.dependencies}
        \ RecordedVersions(b)

CollectionNames(b) == (DOMAIN b.collections) \cup (DOMAIN b.vectors)

AppliedCall == call.op = "apply_migration"

RollbackCall == call.op = "rollback_migration"

(* C1: apply_migration of a migration with a dependency that is not in the *)
(* persisted history returns the missing-dependency validation error and   *)
(* leaves the backend exactly as it was, contracts or not.                 *)
C1_MissingDependencyLeavesBackend ==
    (/\ AppliedCall
     /\ HistoryReadable(call.pre)
     /\ MissingDependencies(call.pre, call.arg) # {})
    => /\ ~call.ret.ok
       /\ call.ret.error.kind = "validation"
       /\ call.ret.error.field = "dependencies"
       /\ Backend = call.pre

-----------------------------------------------------------------------------
(* The outcome class of the operation an interaction describes, carried    *)
(* out on b, and the backend it leaves.                                    *)
DescribedOutcome(b, interaction) ==
    LET op == interaction.request.operation
        c == interaction.request.collection
    IN CASE op = "CreateCollection" ->
              create_collection(b, CollectionConfigNew(c, 128, "Cosine"))
         [] op = "StoreVector" -> store_vector(b, c, NewVector(<<"test">>))
         [] op = "SearchSimilar" ->
              [ok |-> \E r \in search_similar(b, c, PactSearchLimit) : r.ok, b |-> b]
         [] op = "GetVector" -> [ok |-> get_vector(b, c, <<"test">>).ok, b |-> b]
         [] op = "DeleteVector" -> delete_vector(b, c, <<"test">>)
         [] op = "DeleteCollection" -> delete_collection(b, c)
         [] op = "ListCollections" -> [ok |-> TRUE, b |-> b]

AllInteractions(contracts) ==
    IF contracts = <<>> THEN <<>>
    ELSE contracts[1].interactions
         \o (IF Len(contracts) > 1 THEN contracts[2].interactions ELSE <<>>)

RECURSIVE SomeMismatchFrom(_, _, _)
SomeMismatchFrom(b, interactions, i) ==
    IF i > Len(interactions) THEN FALSE
    ELSE LET r == DescribedOutcome(b, interactions[i])
         IN \/ r.ok # (interactions[i].response.status = "Success")
            \/ SomeMismatchFrom(r.b, interactions, i + 1)

(* C2: whatever the kind of an interaction's operation, a mismatch between *)
(* the outcome class of the operation and the expected status makes        *)
(* apply_migration return an error, apply none of the migration's changes  *)
(* and write no history record.                                            *)
C2_EveryInteractionGates ==
    (/\ AppliedCall
     /\ SomeMismatchFrom(call.pre, AllInteractions(call.arg.pact_contracts), 1))
    => /\ ~call.ret.ok
       /\ call.done = <<>>
       /\ RecordedMigrations(Backend) = RecordedMigrations(call.pre)

-----------------------------------------------------------------------------
IsStrictlyAscending(history) ==
    \A i \in 1..(Len(history) - 1) :
        VersionLess(history[i].version, history[i + 1].version)

HistoryRead(b) ==
    {IF h.ok THEN {h.value[i] : i \in DOMAIN h.value} ELSE {} :
        h \in get_migration_history(b)}

(* C3: get_migration_history returns exactly the migrations whose          *)
(* apply_migration succeeded and that were not rolled back since, in       *)
(* strictly ascending version order: a successful apply adds its migration *)
(* to what is returned, a successful rollback takes the migration of its   *)
(* version away, and no other call changes what is returned.               *)
C3_HistoryIsAppliedMinusRolledBack ==
    /\ call.op = "get_migration_history" /\ call.ret.ok
            => IsStrictlyAscending(call.ret.value)
    /\ call.op \in {"initialize", "apply_migration", "rollback_migration"}
            => \A before \in HistoryRead(call.pre) : \A after \in HistoryRead(Backend) :
                  after =
                     CASE AppliedCall /\ call.ret.ok -> before \cup {call.arg}
                       [] RollbackCall /\ call.ret.ok ->
                             {m \in before : m.version # call.arg}
                       [] OTHER -> before

-----------------------------------------------------------------------------
RecordOf(b, version) ==
    {m \in RecordedMigrations(b) : m.version = version}

OnlyCreates(m) ==
    \A i \in DOMAIN m.collection_changes :
        m.collection_changes[i].kind = "CreateCollection"

CreatedNames(m) ==
    {m.collection_changes[i].config.name : i \in DOMAIN m.collection_changes}

IsNotFound(r) ==
    ~r.ok /\ r.error.kind \in {"not_found", "collection_not_found"}

(* C4: rollback_migration of a recorded reversible migration whose changes *)
(* are all CreateCollection succeeds; afterwards none of its collections   *)
(* exists, history has no record of the version, and a second rollback of  *)
(* the version fails with a not-found error.                               *)
C4_RollbackOfCreatesSucceeds ==
    \A m \in RecordedMigrations(IF RollbackCall THEN call.pre ELSE Backend) :
        (/\ RollbackCall
         /\ m.version = call.arg
         /\ m.metadata.reversible
         /\ OnlyCreates(m))
        => /\ call.ret.ok
           /\ CreatedNames(m) \cap CollectionNames(Backend) = {}
           /\ RecordOf(Backend, call.arg) = {}
           /\ IsNotFound(rollback_migration(Backend, call.arg))

(* C5: rollback_migration of a recorded migration that is not reversible   *)
(* returns an error before any reverse change is attempted, and leaves the *)
(* history and the collections as they were.                               *)
C5_NonReversibleRollbackRejected ==
    \A m \in RecordedMigrations(IF RollbackCall THEN call.pre ELSE Backend) :
        (/\ RollbackCall
         /\ m.version = call.arg
         /\ ~m.metadata.reversible)
        => /\ ~call.ret.ok
           /\ call.done = 0
           /\ Backend = call.pre

C5_Witness ==
    /\ RollbackCall
    /\ \E m \in RecordedMigrations(call.pre) :
          /\ m.version = call.arg
          /\ ~m.metadata.reversible
          /\ OnlyCreates(m)
          /\ CreatedNames(m) \subseteq DOMAIN collections
    /\ ~call.ret.ok

-----------------------------------------------------------------------------
(* What a change that is carried out does to the backend, and whether a    *)
(* change fails on it.                                                     *)
ExpectedEffect(b, change) ==
    CASE change.kind = "CreateCollection" ->
            [collections |-> Put(b.collections, change.config.name, change.config),
             vectors |-> Put(b.vectors, change.config.name, EmptyMap)]
      [] change.kind = "DeleteCollection" ->
            [collections |-> Remove(b.collections, change.name),
             vectors |-> Remove(b.vectors, change.name)]
      [] OTHER -> b

IsUnsupported(change) == change.kind \in {"UpdateCollection", "RenameCollection"}

ChangeFails(b, change) ==
    \/ IsUnsupported(change)
    \/ change.kind = "CreateCollection" /\ change.config.name \in DOMAIN b.collections

RECURSIVE AfterPrefix(_, _, _)
AfterPrefix(b, changes, n) ==
    IF n = 0 THEN b
    ELSE ExpectedEffect(AfterPrefix(b, changes, n - 1), changes[n])

(* The position of the first change that fails, 0 when none does.          *)
FirstFailing(b, changes) ==
    LET failing == {k \in DOMAIN changes :
                        ChangeFails(AfterPrefix(b, changes, k - 1), changes[k])}
    IN IF failing = {} THEN 0
       ELSE CHOOSE k \in failing : \A j \in failing : k <= j

(* Both gates of apply_migration let a migration without contracts pass.   *)
GatesPass(b, m) ==
    /\ m.pact_contracts = <<>>
    /\ HistoryReadable(b)
    /\ MissingDependencies(b, m) = {}

(* C6: apply_migration applies the changes in declared order and stops at  *)
(* the first change k that fails: the changes before k stay applied, the   *)
(* changes after k are not attempted, no history record is written.        *)
C6_StopsAtFirstFailingChange ==
    (/\ AppliedCall
     /\ GatesPass(call.pre, call.arg)
     /\ FirstFailing(call.pre, call.arg.collection_changes) > 0)
    => LET k == FirstFailing(call.pre, call.arg.collection_changes)
       IN /\ ~call.ret.ok
          /\ Len(call.done) = k - 1
          /\ Backend = AfterPrefix(call.pre, call.arg.collection_changes, k - 1)
          /\ RecordOf(Backend, call.arg.version)
                = RecordOf(AfterPrefix(call.pre, call.arg.collection_changes, k - 1),
                           call.arg.version)

C6_Witness ==
    /\ AppliedCall
    /\ ~call.ret.ok
    /\ Len(call.arg.collection_changes) = 3
    /\ Len(call.done) = 1
    /\ UserCollection \in DOMAIN collections
    /\ UserCollection \notin DOMAIN call.pre.collections

(* C7: what a failed apply_migration returns tells a rejection before any  *)
(* change from a failure after some changes, and tells which changes were  *)
(* applied: two failed calls that return the same value applied the same   *)
(* changes.                                                                *)
C7_FailureTellsWhatWasApplied ==
    (AppliedCall /\ ~call.ret.ok)
    => \A m \in SchemaMigrations :
          \A r \in apply_migration(call.pre, m) :
             (~r.ok /\ r.error = call.ret.error) => r.applied = call.done

-----------------------------------------------------------------------------
HasUnsupported(m) ==
    \E i \in DOMAIN m.collection_changes : IsUnsupported(m.collection_changes[i])

FirstUnsupported(m) ==
    CHOOSE i \in DOMAIN m.collection_changes :
        /\ IsUnsupported(m.collection_changes[i])
        /\ \A j \in 1..(i - 1) : ~IsUnsupported(m.collection_changes[j])

IsUnsupportedChangeError(error, change) ==
    /\ error.kind = "validation"
    /\ error.field = (IF change.kind = "UpdateCollection"
                      THEN "update_collection" ELSE "rename_collection")

NoUnsupportedInHistory ==
    \A m \in RecordedMigrations(Backend) : ~HasUnsupported(m)

(* C8 as stated: on an initialized manager every migration with an         *)
(* UpdateCollection or a RenameCollection makes apply_migration fail with  *)
(* the unsupported-change validation error, and no such migration is in    *)
(* history.                                                                *)
C8_UnsupportedAlwaysValidationError ==
    /\ (AppliedCall /\ HistoryReadable(call.pre) /\ HasUnsupported(call.arg))
        => /\ ~call.ret.ok
           /\ IsUnsupportedChangeError(
                 call.ret.error,
                 call.arg.collection_changes[FirstUnsupported(call.arg)])
    /\ NoUnsupportedInHistory

(* C8 amended: every migration with an UpdateCollection or a               *)
(* RenameCollection makes apply_migration fail and none is in history; the *)
(* error is the unsupported-change validation error when both gates pass   *)
(* and every change before the first such change succeeds.                 *)
C8_UnsupportedAlwaysFails ==
    /\ (AppliedCall /\ HasUnsupported(call.arg))
        => /\ ~call.ret.ok
           /\ (/\ GatesPass(call.pre, call.arg)
               /\ FirstFailing(call.pre, call.arg.collection_changes)
                     = FirstUnsupported(call.arg))
              => IsUnsupportedChangeError(
                    call.ret.error,
                    call.arg.collection_changes[FirstUnsupported(call.arg)])
    /\ NoUnsupportedInHistory

C8_Witness ==
    /\ AppliedCall
    /\ HasUnsupported(call.arg)
    /\ FirstUnsupported(call.arg) = 2
    /\ ~call.ret.ok
    /\ call.ret.error.field = "update_collection"
    /\ RecordedMigrations(Backend) # {}

-----------------------------------------------------------------------------
(* C9: initialize returns success however often and whenever it is called  *)
(* and, once the tracking collection holds records, leaves the history     *)
(* records and all other collections unchanged.  (Without contracts the    *)
(* tracking collection holds records only after a first initialize.)       *)
C9_InitializeIdempotent ==
    call.op = "initialize"
    => /\ call.ret.ok
       /\ RecordedMigrations(Backend) = RecordedMigrations(call.pre)
       /\ Remove(collections, migration_collection)
             = Remove(call.pre.collections, migration_collection)
       /\ Remove(vectors, migration_collection)
             = Remove(call.pre.vectors, migration_collection)

-----------------------------------------------------------------------------
MigrationRecords(b) ==
    IF migration_collection \in DOMAIN b.vectors
    THEN {w \in Range(b.vectors[migration_collection]) :
            "migration" \in DOMAIN w.metadata}
    ELSE {}

(* C10: the persisted history holds at most one migration record per       *)
(* version, whatever calls led to it.                                      *)
C10_OneRecordPerVersion ==
    \A v, w \in MigrationRecords(Backend) :
        ParseVersion(v.metadata["migration"].version)
            = ParseVersion(w.metadata["migration"].version)
        => v = w

C10_Witness ==
    /\ AppliedCall
    /\ call.ret.ok
    /\ RecordOf(call.pre, call.arg.version) # {}
    /\ call.arg \notin RecordOf(call.pre, call.arg.version)
    /\ Cardinality(MigrationRecords(Backend)) = 2

-----------------------------------------------------------------------------
(* QdrantAdapter (src/src/lib.rs) as the manager's backend.  The adapter   *)
(* converts every Vector to a point before it is sent and every point to   *)
(* a Vector after it is read.  The server keeps the points it is sent,     *)
(* under their ids, in the collections it was told to create; b.vectors    *)
(* holds its points and b.collections its collections.  A metadata value   *)
(* is a serde_json::Value, written <<variant, content>>.                   *)

JsonString(s) == <<"String", s>>

JsonObject(o) == <<"Object", o>>

(* Option<qdrant Value>: <<v>> for Some(v), <<>> for None.                 *)
json_to_qdrant_value(value) ==
    CASE value[1] = "String" -> << <<"StringValue", value[2]>> >>
      [] value[1] = "Integer" -> << <<"IntegerValue", value[2]>> >>
      [] value[1] = "Double" -> << <<"DoubleValue", value[2]>> >>
      [] value[1] = "Bool" -> << <<"BoolValue", value[2]>> >>
      [] OTHER -> <<>>

vector_to_point_struct(vector) ==
    LET kept == {k \in DOMAIN vector.metadata :
                    json_to_qdrant_value(vector.metadata[k]) # <<>>}
    IN [id |-> vector.id,
        payload |-> [k \in kept |-> json_to_qdrant_value(vector.metadata[k])[1]]]

qdrant_to_json_value(value) ==
    CASE value[1] = "StringValue" -> << <<"String", value[2]>> >>
      [] value[1] = "IntegerValue" -> << <<"Integer", value[2]>> >>
      [] value[1] = "DoubleValue" -> << <<"Double", value[2]>> >>
      [] value[1] = "BoolValue" -> << <<"Bool", value[2]>> >>
      [] OTHER -> <<>>

point_to_vector(point) ==
    LET kept == {k \in DOMAIN point.payload :
                    qdrant_to_json_value(point.payload[k]) # <<>>}
    IN [id |-> point.id,
        metadata |-> [k \in kept |-> qdrant_to_json_value(point.payload[k])[1]]]

qdrant_store_vector(b, collection, vector) ==
    IF collection \in DOMAIN b.collections /\ collection \in DOMAIN b.vectors
    THEN [ok |-> TRUE,
          b |-> [b EXCEPT !.vectors[collection] =
                    Put(b.vectors[collection], vector.id,
                        vector_to_point_struct(vector))]]
    ELSE [ok |-> FALSE, b |-> b,
          error |-> StorageFailed(<<"Failed to store vector">>)]

qdrant_get_vector(b, collection, id) ==
    IF collection \in DOMAIN b.collections /\ collection \in DOMAIN b.vectors
    THEN Ok(IF id \in DOMAIN b.vectors[collection]
            THEN <<point_to_vector(b.vectors[collection][id])>> ELSE <<>>)
    ELSE Err([kind |-> "vector_not_found", field |-> "",
              message |-> <<"Failed to get vector">>])

qdrant_search_similar(b, collection, limit) ==
    IF collection \in DOMAIN b.collections /\ collection \in DOMAIN b.vectors
    THEN LET all == Range(b.vectors[collection])
             cap == Min(limit, Cardinality(all))
         IN {Ok({point_to_vector(p) : p \in R}) :
                R \in {S \in SUBSET all : Cardinality(S) = cap}}
    ELSE {Err(StorageFailed(<<"Search failed">>))}

qdrant_delete_vector(b, collection, id) ==
    IF collection \in DOMAIN b.collections /\ collection \in DOMAIN b.vectors
    THEN [ok |-> TRUE,
          b |-> [b EXCEPT !.vectors[collection] =
                    Remove(b.vectors[collection], id)]]
    ELSE [ok |-> FALSE, b |-> b,
          error |-> StorageFailed(<<"Failed to delete vector">>)]

qdrant_create_collection(b, config) ==
    IF config.name \in DOMAIN b.collections
    THEN [ok |-> FALSE, b |-> b,
          error |-> StorageFailed(<<"Collection '", config.name, "' already exists">>)]
    ELSE [ok |-> TRUE,
          b |-> [collections |-> Put(b.collections, config.name, config),
                 vectors |-> Put(b.vectors, config.name, EmptyMap)]]

qdrant_delete_collection(b, name) ==
    IF name \in DOMAIN b.collections
    THEN [ok |-> TRUE,
          b |-> [collections |-> Remove(b.collections, name),
                 vectors |-> Remove(b.vectors, name)]]
    ELSE [ok |-> FALSE, b |-> b, error |-> CollectionNotFound(name)]

(* SchemaMigrationManager<QdrantAdapter>: the code of migration.rs with    *)
(* the adapter calls bound to QdrantAdapter.                               *)

qdrant_initialize(b) ==
    LET r == qdrant_create_collection(
                b, CollectionConfigNew(migration_collection, 256, "Cosine"))
    IN IF r.ok \/ Contains(r.error.message, "' already exists")
       THEN [ok |-> TRUE, b |-> r.b]
       ELSE r

qdrant_HistoryOfResults(results) ==
    SortByVersion(
        {DeserializeMigration(v.metadata["migration"][2]) :
            v \in {w \in results :
                     /\ "migration" \in DOMAIN w.metadata
                     /\ w.metadata["migration"][1] = "Object"
                     /\ CanDeserialize(w.metadata["migration"][2])}})

qdrant_get_migration_history(b) ==
    {IF r.ok THEN Ok(qdrant_HistoryOfResults(r.value)) ELSE r :
        r \in qdrant_search_similar(b, migration_collection, HistoryLimit)}

qdrant_validate_dependencies(b, migration) ==
    {IF h.ok THEN ValidateDependenciesAgainst(h.value, migration) ELSE h :
        h \in qdrant_get_migration_history(b)}

qdrant_apply_collection_change(b, change) ==
    CASE change.kind = "CreateCollection" ->
            LET r == qdrant_create_collection(b, change.config)
            IN IF r.ok
               THEN [ok |-> TRUE, b |-> r.b,
                     value |-> [kind |-> "CollectionCreated", name |-> change.config.name]]
               ELSE r
      [] change.kind = "DeleteCollection" ->
            LET r == qdrant_delete_collection(b, change.name)
            IN IF r.ok
               THEN [ok |-> TRUE, b |-> r.b,
                     value |-> [kind |-> "CollectionDeleted", name |-> change.name]]
               ELSE r
      [] OTHER -> apply_collection_change(b, change)

RECURSIVE qdrant_ApplyChangesFrom(_, _, _, _)
qdrant_ApplyChangesFrom(b, changes, i, results) ==
    IF i > Len(changes) THEN [ok |-> TRUE, b |-> b, results |-> results]
    ELSE LET r == qdrant_apply_collection_change(b, changes[i])
         IN IF r.ok
            THEN qdrant_ApplyChangesFrom(r.b, changes, i + 1, Append(results, r.value))
            ELSE [ok |-> FALSE, b |-> r.b, results |-> results, error |-> r.error]

qdrant_record_migration(b, migration) ==
    LET metadata == [migration |-> JsonObject(SerializeMigration(migration)),
                     type |-> JsonString("schema_migration")]
    IN qdrant_store_vector(
          b, migration_collection,
          VectorWithMetadata(VersionToString(migration.version), metadata))

qdrant_get_migration_record(b, version) ==
    LET r == qdrant_get_vector(b, migration_collection, VersionToString(version))
    IN IF ~r.ok THEN r
       ELSE IF r.value # <<>> /\ "migration" \in DOMAIN r.value[1].metadata
            THEN IF /\ r.value[1].metadata["migration"][1] = "Object"
                    /\ CanDeserialize(r.value[1].metadata["migration"][2])
                 THEN Ok(DeserializeMigration(r.value[1].metadata["migration"][2]))
                 ELSE Err([kind |-> "database", field |-> "",
                           message |-> <<"Invalid migration data">>])
            ELSE Err(NotFoundError("migration", VersionToString(version)))

(* Migrations of the catalogue carry no contract on this backend, so       *)
(* validate_pact_contracts has no interaction to simulate.                 *)
qdrant_apply_migration(b, migration) ==
    {IF ~d.ok
     THEN [ok |-> FALSE, b |-> b, error |-> d.error, applied |-> <<>>]
     ELSE LET c == qdrant_ApplyChangesFrom(b, migration.collection_changes, 1, <<>>)
          IN IF ~c.ok
             THEN [ok |-> FALSE, b |-> c.b, error |-> c.error, applied |-> c.results]
             ELSE LET s == qdrant_record_migration(c.b, migration)
                  IN IF ~s.ok
                     THEN [ok |-> FALSE, b |-> s.b, error |-> s.error,
                           applied |-> c.results]
                     ELSE [ok |-> TRUE, b |-> s.b,
                           value |-> [version |-> migration.version,
                                      applied_changes |-> c.results,
                                      pact_validation_passed |-> TRUE],
                           applied |-> c.results] :
     d \in qdrant_validate_dependencies(b, migration)}

qdrant_apply_reverse_change(b, change) ==
    CASE change.kind = "CreateCollection" ->
            qdrant_delete_collection(b, change.config.name)
      [] OTHER -> apply_reverse_change(b, change)

RECURSIVE qdrant_ApplyReverseChangesFrom(_, _, _)
qdrant_ApplyReverseChangesFrom(b, changes, i) ==
    IF i < 1 THEN [ok |-> TRUE, b |-> b]
    ELSE LET r == qdrant_apply_reverse_change(b, changes[i])
         IN IF r.ok THEN qdrant_ApplyReverseChangesFrom(r.b, changes, i - 1)
            ELSE [ok |-> FALSE, b |-> r.b, error |-> r.error]

qdrant_rollback_migration(b, version) ==
    LET g == qdrant_get_migration_record(b, version)
    IN IF ~g.ok THEN [ok |-> FALSE, b |-> b, error |-> g.error]
       ELSE IF ~g.value.metadata.reversible
            THEN [ok |-> FALSE, b |-> b, error |->
                    ValidationError("rollback",
                        <<"Migration ", VersionToString(version),
                          " is not reversible">>)]
            ELSE LET c == qdrant_ApplyReverseChangesFrom(
                             b, g.value.collection_changes,
                             Len(g.value.collection_changes))
                 IN IF ~c.ok THEN [ok |-> FALSE, b |-> c.b, error |-> c.error]
                    ELSE LET d == qdrant_delete_vector(
                                     c.b, migration_collection,
                                     VersionToString(version))
                         IN IF d.ok THEN [ok |-> TRUE, b |-> d.b]
                            ELSE [ok |-> FALSE, b |-> d.b, error |-> d.error]

(* The same caller with the manager built over QdrantAdapter.              *)

QdrantInitialize ==
    /\ call = Idle
    /\ LET r == qdrant_initialize(Backend)
       IN /\ collections' = r.b.collections
          /\ vectors' = r.b.vectors
          /\ call' = Completed("qdrant_initialize", <<>>, Backend, r, <<>>)

QdrantApplyMigration ==
    /\ call = Idle
    /\ \E m \in SchemaMigrations :
         \E r \in qdrant_apply_migration(Backend, m) :
            /\ collections' = r.b.collections
            /\ vectors' = r.b.vectors
            /\ call' = Completed("qdrant_apply_migration", m, Backend, r, r.applied)

QdrantRollbackMigration ==
    /\ call = Idle
    /\ \E v \in Versions :
         LET r == qdrant_rollback_migration(Backend, v)
         IN /\ collections' = r.b.collections
            /\ vectors' = r.b.vectors
            /\ call' = Completed("qdrant_rollback_migration", v, Backend, r, <<>>)

QdrantReadMigrationHistory ==
    /\ call = Idle
    /\ \E r \in qdrant_get_migration_history(Backend) :
         call' = [op |-> "qdrant_get_migration_history", arg |-> <<>>,
                  pre |-> Backend, done |-> <<>>, ret |-> r]
    /\ UNCHANGED <<collections, vectors>>

NextQdrant ==
    \/ QdrantInitialize
    \/ QdrantApplyMigration
    \/ QdrantRollbackMigration
    \/ QdrantReadMigrationHistory
    \/ Return

SpecQdrant == Init /\ [][NextQdrant]_vars

-----------------------------------------------------------------------------
(* The record of version in the tracking collection of the in-memory       *)
(* store holds migration and reads back as it.                             *)
RecordHolds(b, migration) ==
    LET id == VersionToString(migration.version)
    IN /\ migration_collection \in DOMAIN b.vectors
       /\ id \in DOMAIN b.vectors[migration_collection]
       /\ LET metadata == b.vectors[migration_collection][id].metadata
          IN /\ "migration" \in DOMAIN metadata
             /\ "type" \in DOMAIN metadata
             /\ metadata["type"] = "schema_migration"
       /\ get_migration_record(b, migration.version) = Ok(migration)
       /\ \A h \in get_migration_history(b) :
             h.ok /\ \E i \in DOMAIN h.value : h.value[i] = migration

(* The same for the points kept by the server behind QdrantAdapter.        *)
QdrantRecordHolds(b, migration) ==
    LET id == VersionToString(migration.version)
    IN /\ migration_collection \in DOMAIN b.vectors
       /\ id \in DOMAIN b.vectors[migration_collection]
       /\ LET payload == b.vectors[migration_collection][id].payload
          IN /\ "migration" \in DOMAIN payload
             /\ "type" \in DOMAIN payload
             /\ payload["type"][2] = "schema_migration"
       /\ qdrant_get_migration_record(b, migration.version) = Ok(migration)
       /\ \A h \in qdrant_get_migration_history(b) :
             h.ok /\ \E i \in DOMAIN h.value : h.value[i] = migration

(* C11: after apply_migration(m) succeeds the tracking collection holds,   *)
(* under the string of m.version, a record carrying m under "migration"    *)
(* and the tag type = "schema_migration", and the history and the lookup   *)
(* of rollback_migration read back a migration identical to m; on the      *)
(* in-memory store and on QdrantAdapter.                                   *)
C11_RecordReadsBackIdentical ==
    /\ (AppliedCall /\ call.ret.ok) => RecordHolds(Backend, call.arg)
    /\ (call.op = "qdrant_apply_migration" /\ call.ret.ok)
          => QdrantRecordHolds(Backend, call.arg)

-----------------------------------------------------------------------------
(* A contract shaped as create_sample_pact_contract: a CreateCollection, a  *)
(* StoreVector and a SearchSimilar interaction, in this order, the last    *)
(* two on one collection, all expecting Success.                           *)
ExpectsOnlySuccess(contract) ==
    LET its == contract.interactions
    IN /\ Len(its) = 3
       /\ its[1].request.operation = "CreateCollection"
       /\ its[2].request.operation = "StoreVector"
       /\ its[3].request.operation = "SearchSimilar"
       /\ its[2].request.collection = its[3].request.collection
       /\ \A i \in DOMAIN its : its[i].response.status = "Success"

IsPactError(error) == error.kind = "validation" /\ error.field = "pact"

(* C12: a migration whose dependencies are in history and whose contracts  *)
(* hold a CreateCollection, a StoreVector and a SearchSimilar interaction  *)
(* all expecting Success passes contract validation, whatever migrations   *)
(* were validated and applied through the manager before it: the contract  *)
(* gate lets it through and apply_migration never answers with a contract  *)
(* validation error.                                                       *)
C12_EarlierValidationDoesNotFailLater ==
    (/\ AppliedCall
     /\ call.arg.pact_contracts # <<>>
     /\ \A i \in DOMAIN call.arg.pact_contracts :
            ExpectsOnlySuccess(call.arg.pact_contracts[i])
     /\ HistoryReadable(call.pre)
     /\ MissingDependencies(call.pre, call.arg) = {})
    => /\ ~call.ret.ok => ~IsPactError(call.ret.error)
       /\ validate_pact_contracts(call.pre, call.arg.pact_contracts).ok

-----------------------------------------------------------------------------
(* Two callers share one manager and call apply_migration concurrently.    *)
(* The manager takes no lock: a call is a sequence of awaits on the        *)
(* adapter (the history read of validate_dependencies, one backend call    *)
(* per collection change, the store of the record), and the awaits of the  *)
(* two calls interleave freely.  call holds the two calls in progress:     *)
(* the migration of each, its position, its next change, the results of    *)
(* its changes, whether a record had been written when it validated, and   *)
(* its result once it has returned.                                        *)

Callers == {1, 2}

(* Migrations the concurrent callers apply: with or without a change, and  *)
(* with at most one dependency.                                            *)
ConcurrentMigrations ==
    {Migration(v, ch, deps, TRUE, <<>>) :
        v \in Versions,
        ch \in {<<>>, <<CreateDocs>>},
        deps \in {<<>>} \cup {<<d>> : d \in Versions}}

(* The backend after initialize() and the successful sequential apply of   *)
(* a migration without changes for every version of recorded.              *)
RECURSIVE BackendWithHistory(_)
BackendWithHistory(recorded) ==
    IF recorded = {} THEN initialize([collections |-> EmptyMap, vectors |-> EmptyMap]).b
    ELSE LET v == CHOOSE x \in recorded : TRUE
         IN record_migration(BackendWithHistory(recorded \ {v}),
                             Migration(v, <<>>, <<>>, TRUE, <<>>)).b

ConcurrentInit ==
    \E recorded \in SUBSET Versions :
      \E m1, m2 \in ConcurrentMigrations :
        LET b == BackendWithHistory(recorded)
        IN /\ collections = b.collections
           /\ vectors = b.vectors
           /\ call = [op |-> "concurrent_apply_migration",
                      arg |-> <<m1, m2>>,
                      pre |-> b,
                      pc |-> <<"validate_dependencies", "validate_dependencies">>,
                      next_change |-> <<1, 1>>,
                      applied |-> << <<>>, <<>> >>,
                      unrecorded |-> <<FALSE, FALSE>>,
                      ret |-> << <<>>, <<>> >>]

(* self.validate_dependencies(migration).await?                            *)
ConcurrentValidateDependencies(p) ==
    /\ call.pc[p] = "validate_dependencies"
    /\ \E d \in validate_dependencies(Backend, call.arg[p]) :
         call' = [call EXCEPT
                    !.pc[p] = IF d.ok THEN "apply_collection_change" ELSE "returned",
                    !.unrecorded[p] = \A q \in Callers : call.pc[q] # "returned"
                                                        \/ ~call.ret[q][1].ok,
                    !.ret[p] = IF d.ok THEN <<>> ELSE <<Err(d.error)>>]
    /\ UNCHANGED <<collections, vectors>>

(* One turn of the loop over collection_changes, or its exit.              *)
ConcurrentApplyChange(p) ==
    /\ call.pc[p] = "apply_collection_change"
    /\ LET changes == call.arg[p].collection_changes
           i == call.next_change[p]
       IN IF i > Len(changes)
          THEN /\ call' = [call EXCEPT !.pc[p] = "record_migration"]
               /\ UNCHANGED <<collections, vectors>>
          ELSE LET r == apply_collection_change(Backend, changes[i])
               IN /\ collections' = r.b.collections
                  /\ vectors' = r.b.vectors
                  /\ call' = IF r.ok
                             THEN [call EXCEPT
                                     !.next_change[p] = i + 1,
                                     !.applied[p] = Append(@, r.value)]
                             ELSE [call EXCEPT
                                     !.pc[p] = "returned",
                                     !.ret[p] = <<Err(r.error)>>]

(* self.record_migration(migration).await?; Ok(MigrationResult { .. })     *)
ConcurrentRecord(p) ==
    /\ call.pc[p] = "record_migration"
    /\ LET s == record_migration(Backend, call.arg[p])
       IN /\ collections' = s.b.collections
          /\ vectors' = s.b.vectors
          /\ call' = [call EXCEPT
                        !.pc[p] = "returned",
                        !.ret[p] = <<Ok([version |-> call.arg[p].version,
                                         applied_changes |-> call.applied[p],
                                         pact_validation_passed |-> TRUE])>>]

NextConcurrent ==
    \E p \in Callers :
        \/ ConcurrentValidateDependencies(p)
        \/ ConcurrentApplyChange(p)
        \/ ConcurrentRecord(p)

SpecConcurrent == ConcurrentInit /\ [][NextConcurrent]_vars

-----------------------------------------------------------------------------
ConcurrentCall == call.op = "concurrent_apply_migration"

(* A lists B's version as its dependency and B lists A's.                  *)
CircularClaims ==
    /\ call.arg[1].version # call.arg[2].version
    /\ call.arg[1].metadata.dependencies = <<call.arg[2].version>>
    /\ call.arg[2].metadata.dependencies = <<call.arg[1].version>>

HasValidated(p) == call.pc[p] # "validate_dependencies"

IsMissingDependency(r) ==
    /\ ~r.ok
    /\ r.error.kind = "validation"
    /\ r.error.field = "dependencies"

PassedDependencies(p) ==
    /\ HasValidated(p)
    /\ call.pc[p] = "returned" => ~IsMissingDependency(call.ret[p][1])

-----------------------------------------------------------------------------
(* The filter compiler of QdrantAdapter (src/src/lib.rs).  A filter value  *)
(* is a serde_json::Value <<variant, content>>: a String,                  *)
(* an Integer (a Number for which as_i64 is Some), a Double (a Number      *)
(* held as f64, written in tenths: 25 is 2.5), a Bool, Null, an Array (a   *)
(* sequence of values) or an Object (a function from keys to values).  An  *)
(* f64 is written in tenths as well.  Option values are <<>> for None and  *)
(* <<x>> for Some(x).                                                      *)

JsonInteger(n) == <<"Integer", n>>

JsonDouble(tenths) == <<"Double", tenths>>

JsonBool(x) == <<"Bool", x>>

JsonNull == <<"Null", <<>> >>

JsonArray(values) == <<"Array", values>>

(* serde_json::Value::as_f64                                               *)
as_f64(value) ==
    CASE value[1] = "Integer" -> <<10 * value[2]>>
      [] value[1] = "Double" -> <<value[2]>>
      [] OTHER -> <<>>

(* serde_json::Value::as_bool                                              *)
as_bool(value) == IF value[1] = "Bool" THEN <<value[2]>> ELSE <<>>

(* The cast rounding down instead of toward zero.                         *)
F64AsI64_RoundsDown(tenths) == tenths \div 10

(* float_val as i64: the fraction is dropped, toward zero.                 *)
F64AsI64(tenths) ==
    IF tenths >= 0 THEN tenths \div 10 ELSE 0 - ((0 - tenths) \div 10)

contains_key(obj, key) == key \in DOMAIN obj

(* FieldCondition; the geo, values_count and datetime members, which the   *)
(* compiler always leaves None, are not written.                           *)
FieldCondition(key, match, range, is_empty, is_null) ==
    [key |-> key, match |-> match, range |-> range,
     is_empty |-> is_empty, is_null |-> is_null]

GetBound(obj, op) == IF op \in DOMAIN obj THEN as_f64(obj[op]) ELSE <<>>

(* The inclusive lower bound stored as the strict one.                     *)
build_range_condition_GteAsGt(field, obj) ==
    IF \E op \in DOMAIN obj : as_f64(obj[op]) = <<>>
    THEN Err([kind |-> "invalid_dimension", field |-> "", message |-> <<0, 0>>])
    ELSE Ok(FieldCondition(
                field, <<>>,
                <<[gte |-> <<>>, lte |-> GetBound(obj, "$lte"),
                   gt |-> IF "$gte" \in DOMAIN obj THEN GetBound(obj, "$gte")
                          ELSE GetBound(obj, "$gt"),
                   lt |-> GetBound(obj, "$lt")]>>,
                <<>>, <<>>))

build_range_condition(field, obj) ==
    IF \E op \in DOMAIN obj : as_f64(obj[op]) = <<>>
    THEN Err([kind |-> "invalid_dimension", field |-> "", message |-> <<0, 0>>])
    ELSE Ok(FieldCondition(
                field, <<>>,
                <<[gte |-> GetBound(obj, "$gte"), lte |-> GetBound(obj, "$lte"),
                   gt |-> GetBound(obj, "$gt"), lt |-> GetBound(obj, "$lt")]>>,
                <<>>, <<>>))

(* match_value of build_in_condition for the first element.                *)
InMatchValue(first_val) ==
    CASE first_val[1] = "String" -> << <<"Keyword", first_val[2]>> >>
      [] first_val[1] = "Integer" -> << <<"Integer", first_val[2]>> >>
      [] first_val[1] = "Double" ->
            << <<"Integer", F64AsI64(first_val[2])>> >>
      [] first_val[1] = "Bool" -> << <<"Boolean", first_val[2]>> >>
      [] OTHER -> <<>>

(* The leaf seeded from the last element of the array.                     *)
build_in_condition_LastElement(field, obj) ==
    IF /\ "$in" \in DOMAIN obj
       /\ obj["$in"][1] = "Array"
       /\ obj["$in"][2] # <<>>
       /\ InMatchValue(obj["$in"][2][Len(obj["$in"][2])]) # <<>>
    THEN Ok(FieldCondition(field, InMatchValue(obj["$in"][2][Len(obj["$in"][2])]),
                           <<>>, <<>>, <<>>))
    ELSE Err([kind |-> "invalid_dimension", field |-> "", message |-> <<0, 0>>])

build_in_condition(field, obj) ==
    IF /\ "$in" \in DOMAIN obj
       /\ obj["$in"][1] = "Array"
       /\ obj["$in"][2] # <<>>
       /\ InMatchValue(obj["$in"][2][1]) # <<>>
    THEN Ok(FieldCondition(field, InMatchValue(obj["$in"][2][1]),
                           <<>>, <<>>, <<>>))
    ELSE Err([kind |-> "invalid_dimension", field |-> "", message |-> <<0, 0>>])

build_not_equals_condition(field, obj) ==
    Err(StorageFailed(<<"$ne operator not yet implemented">>))

build_exists_condition(field, obj) ==
    LET given == IF "$exists" \in DOMAIN obj THEN as_bool(obj["$exists"]) ELSE <<>>
        exists == IF given = <<>> THEN TRUE ELSE given[1]
    IN Ok(FieldCondition(field, <<>>, <<>>, <<~exists>>, <<~exists>>))

(* The leaf of a String, Number or Bool value: the last three arms of the  *)
(* match of build_filter.                                                  *)
ScalarCondition(field, value) ==
    FieldCondition(
        field,
        CASE value[1] = "String" -> << <<"Keyword", value[2]>> >>
          [] value[1] = "Integer" -> << <<"Integer", value[2]>> >>
          [] value[1] = "Double" ->
                << <<"Integer", F64AsI64(value[2])>> >>
          [] value[1] = "Bool" -> << <<"Boolean", value[2]>> >>,
        <<>>, <<>>, <<>>)

OkOrContinue(r) == IF r.ok THEN <<r.value>> ELSE <<>>

(* One turn of the loop of build_filter: <<condition>>, or <<>> where the  *)
(* code continues without pushing.                                         *)
ConditionOf(field, value) ==
    IF value[1] = "Object"
    THEN LET obj == value[2]
         IN IF \/ contains_key(obj, "$gte") \/ contains_key(obj, "$lte")
               \/ contains_key(obj, "$gt") \/ contains_key(obj, "$lt")
            THEN OkOrContinue(build_range_condition(field, obj))
            ELSE IF contains_key(obj, "$in")
            THEN OkOrContinue(build_in_condition(field, obj))
            ELSE IF contains_key(obj, "$ne")
            THEN OkOrContinue(build_not_equals_condition(field, obj))
            ELSE IF contains_key(obj, "$exists")
            THEN OkOrContinue(build_exists_condition(field, obj))
            ELSE <<>>
    ELSE IF value[1] \in {"String", "Integer", "Double", "Bool"}
         THEN <<ScalarCondition(field, value)>>
         ELSE <<>>

(* must_conditions after the loop has visited order[i..].                  *)
RECURSIVE MustConditionsFrom(_, _, _)
MustConditionsFrom(filters, order, i) ==
    IF i > Len(order) THEN <<>>
    ELSE ConditionOf(order[i], filters[order[i]])
            \o MustConditionsFrom(filters, order, i + 1)

(* A filter with an empty MUST group returned where no condition was       *)
(* pushed.                                                                 *)
build_filter_KeepsEmptyMust(filters, order) ==
    IF DOMAIN filters = {} THEN <<>>
    ELSE <<[should |-> <<>>, must |-> MustConditionsFrom(filters, order, 1),
            must_not |-> <<>>, min_should |-> <<>>]>>

(* build_filter(params): order is the order in which the HashMap           *)
(* params.filters hands out its entries.  Option<Filter>.                  *)
build_filter(filters, order) ==
    IF DOMAIN filters = {} THEN <<>>
    ELSE LET must_conditions == MustConditionsFrom(filters, order, 1)
         IN IF must_conditions = <<>> THEN <<>>
            ELSE <<[should |-> <<>>, must |-> must_conditions,
                    must_not |-> <<>>, min_should |-> <<>>]>>

(* MockQdrantAdapter::search_similar with params.filters: a record passes  *)
(* when each filtered key holds a value equal to the filter value.         *)
JsonEq(a, b) == a[1] = b[1] /\ a[2] = b[2]

matches_filter(vector, filters) ==
    \A key \in DOMAIN filters :
        /\ key \in DOMAIN vector.metadata
        /\ JsonEq(vector.metadata[key], filters[key])

(* The record sets the call can return: the loop pushes the records that   *)
(* pass, in the order of the HashMap, and leaves once limit are pushed.    *)
search_similar_filtered(b, collection, filters, limit) ==
    IF collection \in DOMAIN b.vectors
    THEN LET all == Range(b.vectors[collection])
             passing == {v \in all : matches_filter(v, filters)}
         IN IF limit = 0
            THEN {Ok(IF v \in passing THEN {v} ELSE {}) : v \in all}
                    \cup (IF all = {} THEN {Ok({})} ELSE {})
            ELSE {Ok(R) : R \in {S \in SUBSET passing :
                                    Cardinality(S) = Min(limit, Cardinality(passing))}}
    ELSE {Err(CollectionNotFound(collection))}

-----------------------------------------------------------------------------
(* Filter maps handed to the compiler and to the in-memory search.         *)

MaxInLen == 2

FilterFields == {"category", "price"}

Numbers ==
    {JsonInteger(3), JsonInteger(0 - 2), JsonDouble(25), JsonDouble(0 - 25),
     JsonDouble(20)}

Scalars == {JsonString("a"), JsonString("b"), JsonBool(TRUE), JsonBool(FALSE)}
              \cup Numbers

RangeKeys == {"$gte", "$lte", "$gt", "$lt"}

(* Operator objects holding a non-empty subset of the range keys with      *)
(* numeric values.                                                         *)
RangeObjects ==
    {JsonObject(o) :
        o \in UNION {[K -> {JsonInteger(1), JsonDouble(45)}] :
                        K \in (SUBSET RangeKeys) \ {{}}}}

InElements ==
    {JsonString("a"), JsonString("b"), JsonInteger(3), JsonDouble(25),
     JsonBool(TRUE), JsonNull}

InObjects ==
    {JsonObject([k \in {"$in"} |-> JsonArray(values)]) :
        values \in UNION {[1..n -> InElements] : n \in 0..MaxInLen}}

Obj1(k, v) == JsonObject([x \in {k} |-> v])

Obj2(k1, v1, k2, v2) == JsonObject([x \in {k1, k2} |-> IF x = k1 THEN v1 ELSE v2])

OtherValues ==
    {JsonNull,
     JsonArray(<<JsonString("a")>>),
     JsonObject(EmptyMap),
     Obj1("foo", JsonInteger(1)),
     Obj1("$ne", JsonString("a")),
     Obj1("$ne", JsonInteger(3)),
     Obj1("$exists", JsonBool(TRUE)),
     Obj1("$exists", JsonBool(FALSE)),
     Obj1("$exists", JsonString("yes")),
     Obj1("$in", JsonString("a")),
     Obj1("$in", JsonArray(<<JsonArray(<<JsonString("a")>>), JsonString("b")>>)),
     Obj1("$gte", JsonString("a")),
     Obj2("$gte", JsonInteger(1), "$lte", JsonString("b")),
     Obj2("$gte", JsonInteger(1), "foo", JsonInteger(2)),
     Obj2("$gte", JsonInteger(1), "$ne", JsonInteger(3)),
     Obj2("$gte", JsonInteger(1), "$in", JsonArray(<<JsonInteger(3)>>)),
     Obj2("$in", JsonArray(<<JsonString("a")>>), "$ne", JsonString("b")),
     Obj2("$ne", JsonString("a"), "$exists", JsonBool(TRUE))}

FilterValues == Scalars \cup RangeObjects \cup InObjects \cup OtherValues

(* The values given to a second field of the map.                          *)
SecondValues ==
    {JsonInteger(3), JsonDouble(25), JsonString("a"), JsonNull,
     Obj1("$ne", JsonInteger(3)), Obj1("$exists", JsonBool(FALSE)),
     Obj1("$lt", JsonInteger(1)), Obj1("$in", JsonArray(<<>>))}

FilterMaps ==
    {EmptyMap}
    \cup {[f \in {"category"} |-> v] : v \in FilterValues}
    \cup {[f \in {"price"} |-> v] : v \in SecondValues}
    \cup {[f \in FilterFields |-> IF f = "category" THEN v ELSE w] :
            v \in FilterValues, w \in SecondValues}

(* The orders in which a HashMap with these keys can hand them out.        *)
Orders(filters) ==
    {order \in UNION {[1..n -> DOMAIN filters] : n \in 0..Cardinality(FilterFields)} :
        /\ Len(order) = Cardinality(DOMAIN filters)
        /\ {order[i] : i \in DOMAIN order} = DOMAIN filters}

SearchLimits == {0, 1, 10}

(* Records of the searched collection.                                     *)
Record(id, metadata) == VectorWithMetadata(id, metadata)

RecordSets ==
    {{},
     {Record("r1", [k \in {"category"} |-> JsonString("a")]),
      Record("r2", EmptyMap),
      Record("r3", [k \in {"category"} |-> JsonNull])},
     {Record("r1", [k \in {"category"} |-> JsonString("a")]),
      Record("r2", EmptyMap),
      Record("r3", [k \in {"category"} |-> JsonNull]),
      Record("r4", [k \in FilterFields |->
                      IF k = "category" THEN JsonString("b") ELSE JsonInteger(3)]),
      Record("r5", [k \in {"price"} |-> JsonDouble(25)])}}

RECURSIVE StoreAll(_, _, _)
StoreAll(b, collection, records) ==
    IF records = {} THEN b
    ELSE LET v == CHOOSE x \in records : TRUE
         IN StoreAll(store_vector(b, collection, v).b, collection, records \ {v})

FilterInit ==
    \E records \in RecordSets :
        LET created == create_collection(
                          [collections |-> EmptyMap, vectors |-> EmptyMap],
                          CreateDocs.config).b
            b == StoreAll(created, UserCollection, records)
        IN /\ collections = b.collections
           /\ vectors = b.vectors
           /\ call = Idle

(* QdrantAdapter::search_similar up to the request: the filter compiled    *)
(* from params.filters.                                                    *)
BuildFilter ==
    /\ call = Idle
    /\ \E filters \in FilterMaps :
         \E order \in Orders(filters) :
            call' = [op |-> "build_filter", arg |-> filters, pre |-> Backend,
                     done |-> order, ret |-> build_filter(filters, order)]
    /\ UNCHANGED <<collections, vectors>>

(* MockQdrantAdapter::search_similar with params.filters.                  *)
SearchSimilar ==
    /\ call = Idle
    /\ \E filters \in FilterMaps :
         \E limit \in SearchLimits :
            \E r \in search_similar_filtered(Backend, UserCollection, filters, limit) :
               call' = [op |-> "search_similar", arg |-> filters, pre |-> Backend,
                        done |-> limit, ret |-> r]
    /\ UNCHANGED <<collections, vectors>>

NextFilter ==
    \/ BuildFilter
    \/ SearchSimilar
    \/ Return

SpecFilter == FilterInit /\ [][NextFilter]_vars

-----------------------------------------------------------------------------
BuildFilterCall == call.op = "build_filter"

IsNoFilter(ret) == ret = <<>>

IsFilter(ret) == Len(ret) = 1

(* The positions of the MUST leaves bound to field in a compiled filter.   *)
LeavesFor(ret, field) ==
    IF IsFilter(ret)
    THEN {i \in DOMAIN ret[1].must : ret[1].must[i].key = field}
    ELSE {}

IsNeObject(value) == value[1] = "Object" /\ DOMAIN value[2] = {"$ne"}

(* C14: compiling a filter map in which a field's value is {"$ne": x}      *)
(* yields an error: the answer is neither a compiled filter from which     *)
(* the $ne condition is left out nor the "no filter" answer.               *)
C14_NeYieldsError ==
    (/\ BuildFilterCall
     /\ \E f \in DOMAIN call.arg : IsNeObject(call.arg[f]))
    => ~IsFilter(call.ret) /\ ~IsNoFilter(call.ret)

RecognizedKeys == RangeKeys \cup {"$in", "$ne", "$exists"}

UnrecognizedShape(value) ==
    \/ value[1] \in {"Null", "Array"}
    \/ value[1] = "Object" /\ DOMAIN value[2] \cap RecognizedKeys = {}

(* C15: build_filter leaves a field without a leaf, reporting nothing,     *)
(* only when the field's value has an unrecognized shape: null, an array,  *)
(* or an object without a recognized operator key.                         *)
C15_OnlyUnrecognizedShapesDropped ==
    BuildFilterCall
    => \A f \in DOMAIN call.arg :
          LeavesFor(call.ret, f) = {} => UnrecognizedShape(call.arg[f])

-----------------------------------------------------------------------------
IsScalar(value) == value[1] \in {"String", "Integer", "Double", "Bool"}

(* The call compiled the one-entry map {f: v} for a scalar v.              *)
ScalarEqualityCall ==
    /\ BuildFilterCall
    /\ Cardinality(DOMAIN call.arg) = 1
    /\ \A f \in DOMAIN call.arg : IsScalar(call.arg[f])

(* ret is a filter of exactly one MUST leaf, an equality match on field,   *)
(* with empty SHOULD and MUST-NOT groups.                                  *)
IsOneMatchLeafOn(ret, field) ==
    /\ IsFilter(ret)
    /\ ret[1].should = <<>>
    /\ ret[1].must_not = <<>>
    /\ Len(ret[1].must) = 1
    /\ ret[1].must[1].key = field
    /\ Len(ret[1].must[1].match) = 1
    /\ ret[1].must[1].range = <<>>
    /\ ret[1].must[1].is_empty = <<>>
    /\ ret[1].must[1].is_null = <<>>

(* The match value selects the records whose field equals v.               *)
MatchesExactly(match_value, v) ==
    CASE v[1] = "String" -> match_value = <<"Keyword", v[2]>>
      [] v[1] = "Integer" -> match_value = <<"Integer", v[2]>>
      [] v[1] = "Bool" -> match_value = <<"Boolean", v[2]>>
      [] v[1] = "Double" -> match_value[1] = "Integer" /\ 10 * match_value[2] = v[2]

(* t is the f64 of v with its fraction dropped: the integer nearest to v   *)
(* among those not farther from zero than v.                               *)
IsTruncationOf(t, tenths) ==
    IF tenths >= 0
    THEN 10 * t <= tenths /\ tenths < 10 * t + 10
    ELSE 10 * t >= tenths /\ tenths > 10 * t - 10

MatchesTruncated(match_value, v) ==
    IF v[1] = "Double"
    THEN match_value[1] = "Integer" /\ IsTruncationOf(match_value[2], v[2])
    ELSE MatchesExactly(match_value, v)

(* C16 as stated: for every field f and every scalar v, a float included,  *)
(* build_filter on {f: v} returns one MUST leaf on f matching exactly v,   *)
(* with empty SHOULD and MUST-NOT groups.                                  *)
C16_ScalarLeafMatchesExactly ==
    ScalarEqualityCall
    => \A f \in DOMAIN call.arg :
          /\ IsOneMatchLeafOn(call.ret, f)
          /\ MatchesExactly(call.ret[1].must[1].match[1], call.arg[f])

(* C16 amended: for every field f and every scalar v, build_filter on      *)
(* {f: v} returns one MUST leaf on f with empty SHOULD and MUST-NOT        *)
(* groups; the leaf matches exactly v for a string, an integer or a        *)
(* boolean, and for a float it is an integer match on v with its fraction  *)
(* dropped (toward zero).                                                  *)
C16_ScalarLeafMatchesTruncated ==
    ScalarEqualityCall
    => \A f \in DOMAIN call.arg :
          /\ IsOneMatchLeafOn(call.ret, f)
          /\ MatchesTruncated(call.ret[1].must[1].match[1], call.arg[f])

C16_Witness ==
    /\ ScalarEqualityCall
    /\ \E f \in DOMAIN call.arg :
          /\ call.arg[f] = JsonDouble(0 - 25)
          /\ IsOneMatchLeafOn(call.ret, f)
          /\ call.ret[1].must[1].match[1] = <<"Integer", 0 - 2>>

-----------------------------------------------------------------------------
IsNumber(value) == value[1] \in {"Integer", "Double"}

(* An operator object holding a non-empty subset of the four range keys,   *)
(* each with a numeric value.                                              *)
IsRangeObject(value) ==
    /\ value[1] = "Object"
    /\ DOMAIN value[2] # {}
    /\ DOMAIN value[2] \subseteq RangeKeys
    /\ \A op \in DOMAIN value[2] : IsNumber(value[2][op])

(* The number v in tenths.                                                 *)
Tenths(v) == IF v[1] = "Integer" THEN 10 * v[2] ELSE v[2]

(* bound is the value the object gives under op, and open where the        *)
(* object has no op.                                                       *)
BoundIs(bound, obj, op) ==
    IF op \in DOMAIN obj THEN bound = <<Tenths(obj[op])>> ELSE bound = <<>>

IsRangeLeafOf(leaf, field, obj) ==
    /\ leaf.key = field
    /\ leaf.match = <<>>
    /\ leaf.is_empty = <<>>
    /\ leaf.is_null = <<>>
    /\ Len(leaf.range) = 1
    /\ BoundIs(leaf.range[1].gte, obj, "$gte")
    /\ BoundIs(leaf.range[1].lte, obj, "$lte")
    /\ BoundIs(leaf.range[1].gt, obj, "$gt")
    /\ BoundIs(leaf.range[1].lt, obj, "$lt")

(* C17: for a field f whose value is an operator object with a non-empty   *)
(* subset of $gte, $lte, $gt, $lt and numeric values, the compiled filter  *)
(* has exactly one leaf for f, a range leaf whose bounds are the values    *)
(* present and open where a bound is absent.                               *)
C17_RangeLeafMergesBounds ==
    BuildFilterCall
    => \A f \in DOMAIN call.arg :
          IsRangeObject(call.arg[f])
          => /\ Cardinality(LeavesFor(call.ret, f)) = 1
             /\ \A i \in LeavesFor(call.ret, f) :
                   IsRangeLeafOf(call.ret[1].must[i], f, call.arg[f][2])

(* {"$gte": 1, "$lte": 4.5} compiled to the leaf [1, 4.5] with no strict   *)
(* bound.                                                                  *)
C17_Witness ==
    /\ BuildFilterCall
    /\ \E f \in DOMAIN call.arg :
          /\ call.arg[f] = Obj2("$gte", JsonInteger(1), "$lte", JsonDouble(45))
          /\ \E i \in LeavesFor(call.ret, f) :
                call.ret[1].must[i].range =
                    <<[gte |-> <<10>>, lte |-> <<45>>, gt |-> <<>>, lt |-> <<>>]>>

-----------------------------------------------------------------------------
(* {"$in": [e1, ..., en]} with n >= 1 and e1 a string, an integer or a     *)
(* boolean.                                                                *)
IsInObject(value) ==
    /\ value[1] = "Object"
    /\ DOMAIN value[2] = {"$in"}
    /\ value[2]["$in"][1] = "Array"
    /\ Len(value[2]["$in"][2]) >= 1
    /\ value[2]["$in"][2][1][1] \in {"String", "Integer", "Bool"}

FirstOf(value) == value[2]["$in"][2][1]

(* The match value typed after the element e.                              *)
TypedAfter(e) ==
    CASE e[1] = "String" -> <<"Keyword", e[2]>>
      [] e[1] = "Integer" -> <<"Integer", e[2]>>
      [] e[1] = "Bool" -> <<"Boolean", e[2]>>

-----------------------------------------------------------------------------
SearchSimilarCall == call.op = "search_similar"

IsExistsObject(value, b) ==
    /\ value[1] = "Object"
    /\ DOMAIN value[2] = {"$exists"}
    /\ value[2]["$exists"] = JsonBool(b)

(* The records of the searched collection before the call.                 *)
SearchedRecords == Range(call.pre.vectors[UserCollection])

PresentAndNonNull(vector, field) ==
    /\ field \in DOMAIN vector.metadata
    /\ vector.metadata[field][1] # "Null"

(* C19: {f: {"$exists": b}} compiles to one presence/absence leaf on f,    *)
(* and a search with it, with room for every record, selects exactly the   *)
(* records in which f is present and non-null when b is true and exactly   *)
(* those in which f is absent or null when b is false, so that the two     *)
(* selections partition the record set.                                    *)
C19_ExistsPartitionsRecords ==
    \A b \in BOOLEAN :
        /\ (/\ BuildFilterCall
            /\ DOMAIN call.arg = {"category"}
            /\ IsExistsObject(call.arg["category"], b))
           => /\ IsFilter(call.ret)
              /\ Len(call.ret[1].must) = 1
              /\ call.ret[1].must[1] =
                    [key |-> "category", match |-> <<>>, range |-> <<>>,
                     is_empty |-> <<~b>>, is_null |-> <<~b>>]
        /\ (/\ SearchSimilarCall
            /\ DOMAIN call.arg = {"category"}
            /\ IsExistsObject(call.arg["category"], b)
            /\ call.done >= Cardinality(SearchedRecords)
            /\ call.done > 0)
           => /\ call.ret.ok
              /\ call.ret.value =
                    {v \in SearchedRecords : PresentAndNonNull(v, "category") <=> b}

-----------------------------------------------------------------------------
(* The values for which the loop of build_filter pushes a leaf.            *)
ProducesLeaf(value) ==
    \/ IsScalar(value)
    \/ /\ value[1] = "Object"
       /\ LET obj == value[2]
          IN IF DOMAIN obj \cap RangeKeys # {}
             THEN \A op \in DOMAIN obj : IsNumber(obj[op])
             ELSE IF "$in" \in DOMAIN obj
             THEN /\ obj["$in"][1] = "Array"
                  /\ Len(obj["$in"][2]) >= 1
                  /\ IsScalar(obj["$in"][2][1])
             ELSE "$ne" \notin DOMAIN obj /\ "$exists" \in DOMAIN obj

(* C20: for every filter map, the filter build_filter returns has empty    *)
(* SHOULD and MUST-NOT groups and at most one MUST leaf per input field,   *)
(* each leaf bound to a field of the map; build_filter returns no filter   *)
(* exactly when the map is empty or no field produced a leaf.              *)
C20_MustOnlyOneLeafPerField ==
    BuildFilterCall
    => /\ IsFilter(call.ret) \/ IsNoFilter(call.ret)
       /\ IsFilter(call.ret)
          => /\ call.ret[1].should = <<>>
             /\ call.ret[1].must_not = <<>>
             /\ \A i \in DOMAIN call.ret[1].must :
                   call.ret[1].must[i].key \in DOMAIN call.arg
             /\ \A f \in DOMAIN call.arg :
                   Cardinality(LeavesFor(call.ret, f)) <= 1
       /\ IsNoFilter(call.ret)
          <=> \/ DOMAIN call.arg = {}
              \/ \A f \in DOMAIN call.arg : ~ProducesLeaf(call.arg[f])

(* A map of two fields compiled to two MUST leaves, one per field.         *)
C20_Witness ==
    /\ BuildFilterCall
    /\ DOMAIN call.arg = FilterFields
    /\ IsFilter(call.ret)
    /\ Len(call.ret[1].must) = 2
    /\ \A f \in FilterFields : Cardinality(LeavesFor(call.ret, f)) = 1

-----------------------------------------------------------------------------
(* QdrantAdapter::build_complex_filter.  A condition list is a sequence of *)
(* pairs <<field, value>>.                                                 *)

(* match_value of the closure build_condition_list: None for every value   *)
(* that is not a string, an i64 number or a boolean.                       *)
ComplexMatchValue(value) ==
    CASE value[1] = "String" -> << <<"Keyword", value[2]>> >>
      [] value[1] = "Integer" -> << <<"Integer", value[2]>> >>
      [] value[1] = "Bool" -> << <<"Boolean", value[2]>> >>
      [] OTHER -> <<>>

RECURSIVE build_condition_list(_)
build_condition_list(conditions) ==
    IF conditions = <<>> THEN <<>>
    ELSE LET field == conditions[1][1]
             match_value == ComplexMatchValue(conditions[1][2])
         IN (IF match_value = <<>> THEN <<>>
             ELSE <<FieldCondition(field, match_value, <<>>, <<>>, <<>>)>>)
            \o build_condition_list(Tail(conditions))

build_complex_filter(must_conditions, should_conditions, must_not_conditions) ==
    LET must == build_condition_list(must_conditions)
        should == build_condition_list(should_conditions)
        must_not == build_condition_list(must_not_conditions)
    IN IF must = <<>> /\ should = <<>> /\ must_not = <<>>
       THEN <<>>
       ELSE <<[should |-> should, must |-> must, must_not |-> must_not,
               min_should |-> <<>>]>>

MaxPairs == 2

ConditionPairs ==
    {<<"category", JsonString("a")>>, <<"price", JsonInteger(3)>>,
     <<"price", JsonDouble(25)>>, <<"category", JsonBool(TRUE)>>,
     <<"category", JsonNull>>}

ConditionLists(n) == UNION {[1..k -> ConditionPairs] : k \in 0..n}

ComplexInit ==
    /\ collections = EmptyMap
    /\ vectors = EmptyMap
    /\ call = Idle

BuildComplexFilter ==
    /\ call = Idle
    /\ \E must \in ConditionLists(MaxPairs), should \in ConditionLists(MaxPairs),
          must_not \in ConditionLists(1) :
            call' = [op |-> "build_complex_filter",
                     arg |-> [must |-> must, should |-> should, must_not |-> must_not],
                     pre |-> Backend, done |-> 0,
                     ret |-> build_complex_filter(must, should, must_not)]
    /\ UNCHANGED <<collections, vectors>>

NextComplex ==
    \/ BuildComplexFilter
    \/ Return

SpecComplex == ComplexInit /\ [][NextComplex]_vars

-----------------------------------------------------------------------------
BuildComplexFilterCall == call.op = "build_complex_filter"

(* The pairs of a list whose value is a scalar, in list order.             *)
RECURSIVE ScalarPairs(_)
ScalarPairs(conditions) ==
    IF conditions = <<>> THEN <<>>
    ELSE (IF IsScalar(conditions[1][2]) THEN <<conditions[1]>> ELSE <<>>)
         \o ScalarPairs(Tail(conditions))

(* group holds one equality leaf for each scalar pair of the list, in list *)
(* order, matching the value itself where it is not a float.               *)
GroupRepresents(group, conditions) ==
    LET pairs == ScalarPairs(conditions)
    IN /\ Len(group) = Len(pairs)
       /\ \A i \in DOMAIN pairs :
             /\ group[i].key = pairs[i][1]
             /\ Len(group[i].match) = 1
             /\ group[i].range = <<>>
             /\ pairs[i][2][1] # "Double"
                => MatchesExactly(group[i].match[1], pairs[i][2])

(* C21: build_complex_filter puts one equality leaf for each (field,       *)
(* scalar) pair, floats included, into the group of the list the pair came *)
(* from, in list order, and returns no filter exactly when the three       *)
(* groups are empty.                                                       *)
C21_EveryScalarPairHasLeaf ==
    BuildComplexFilterCall
    => LET ret == IF IsFilter(call.ret) THEN call.ret[1]
                  ELSE [must |-> <<>>, should |-> <<>>, must_not |-> <<>>]
       IN /\ GroupRepresents(ret.must, call.arg.must)
          /\ GroupRepresents(ret.should, call.arg.should)
          /\ GroupRepresents(ret.must_not, call.arg.must_not)
          /\ IsNoFilter(call.ret)
             <=> ret.must = <<>> /\ ret.should = <<>> /\ ret.must_not = <<>>

-----------------------------------------------------------------------------
(* MigrationBuilder.  In this specification call holds the builder: the    *)
(* migration under construction, the setter calls made so far and whether  *)
(* build has consumed the builder.                                         *)

MaxCalls == 3

(* chrono::Utc::now() at the call of new.                                  *)
BuilderNow == 1

MigrationBuilder_new(version, name) ==
    [version |-> version,
     name |-> name,
     collection_changes |-> <<>>,
     metadata |-> [author |-> "unknown", created_at |-> BuilderNow,
                   description |-> "", dependencies |-> <<>>,
                   reversible |-> TRUE, breaking_change |-> FALSE],
     pact_contracts |-> <<>>]

SetterCall(setter, arg) == <<setter, arg>>

(* Setters whose list members are written at the front.                    *)
BuilderApply_Prepends(m, c) ==
    CASE c[1] = "author" -> [m EXCEPT !.metadata.author = c[2]]
      [] c[1] = "description" -> [m EXCEPT !.metadata.description = c[2]]
      [] c[1] = "depends_on" ->
            [m EXCEPT !.metadata.dependencies = <<c[2]>> \o @]
      [] c[1] = "breaking_change" -> [m EXCEPT !.metadata.breaking_change = TRUE]
      [] c[1] = "non_reversible" -> [m EXCEPT !.metadata.reversible = FALSE]
      [] c[1] = "create_collection" ->
            [m EXCEPT !.collection_changes =
                          <<[kind |-> "CreateCollection", config |-> c[2]]>> \o @]
      [] c[1] = "delete_collection" ->
            [m EXCEPT !.collection_changes =
                          <<[kind |-> "DeleteCollection", name |-> c[2]]>> \o @]
      [] c[1] = "add_pact_contract" ->
            [m EXCEPT !.pact_contracts = <<c[2]>> \o @]

(* The eight setters: each returns the builder with one member written.    *)
BuilderApply(m, c) ==
    CASE c[1] = "author" -> [m EXCEPT !.metadata.author = c[2]]
      [] c[1] = "description" -> [m EXCEPT !.metadata.description = c[2]]
      [] c[1] = "depends_on" ->
            [m EXCEPT !.metadata.dependencies = Append(@, c[2])]
      [] c[1] = "breaking_change" -> [m EXCEPT !.metadata.breaking_change = TRUE]
      [] c[1] = "non_reversible" -> [m EXCEPT !.metadata.reversible = FALSE]
      [] c[1] = "create_collection" ->
            [m EXCEPT !.collection_changes =
                          Append(@, [kind |-> "CreateCollection", config |-> c[2]])]
      [] c[1] = "delete_collection" ->
            [m EXCEPT !.collection_changes =
                          Append(@, [kind |-> "DeleteCollection", name |-> c[2]])]
      [] c[1] = "add_pact_contract" ->
            [m EXCEPT !.pact_contracts = Append(@, c[2])]

(* build(self) hands out the migration as it stands.                       *)
build(m) == m

BuilderCalls ==
    {SetterCall("author", "Test Author"),
     SetterCall("description", "Test description"),
     SetterCall("breaking_change", <<>>),
     SetterCall("non_reversible", <<>>),
     SetterCall("create_collection", CreateDocs.config),
     SetterCall("delete_collection", UserCollection),
     SetterCall("add_pact_contract", SampleContract)}
    \cup {SetterCall("depends_on", v) : v \in Versions}

BuilderInit ==
    /\ collections = EmptyMap
    /\ vectors = EmptyMap
    /\ call = Idle

BuilderNew ==
    /\ call = Idle
    /\ \E version \in Versions :
          call' = [op |-> "builder",
                   migration |-> MigrationBuilder_new(version, "Test migration"),
                   calls |-> <<>>, built |-> FALSE]
    /\ UNCHANGED <<collections, vectors>>

BuilderSet ==
    /\ call.op = "builder"
    /\ ~call.built
    /\ Len(call.calls) < MaxCalls
    /\ \E c \in BuilderCalls :
          call' = [call EXCEPT !.migration = BuilderApply(@, c),
                               !.calls = Append(@, c)]
    /\ UNCHANGED <<collections, vectors>>

BuilderBuild ==
    /\ call.op = "builder"
    /\ ~call.built
    /\ call' = [call EXCEPT !.migration = build(@), !.built = TRUE]
    /\ UNCHANGED <<collections, vectors>>

NextBuilder ==
    \/ BuilderNew
    \/ BuilderSet
    \/ BuilderBuild
    \/ Return

SpecBuilder == BuilderInit /\ [][NextBuilder]_vars

-----------------------------------------------------------------------------
BuilderBuilt == call.op = "builder" /\ call.built

(* The member of the migration a setter writes.                            *)
MemberOf(setter) ==
    IF setter \in {"create_collection", "delete_collection"}
    THEN "collection_changes"
    ELSE setter

(* What a call contributes to the list it appends to.                      *)
ItemOf(c) ==
    CASE c[1] = "create_collection" -> [kind |-> "CreateCollection", config |-> c[2]]
      [] c[1] = "delete_collection" -> [kind |-> "DeleteCollection", name |-> c[2]]
      [] OTHER -> c[2]

(* The items of the calls to the given setters, in call order.             *)
RECURSIVE ItemsOf(_, _)
ItemsOf(calls, setters) ==
    IF calls = <<>> THEN <<>>
    ELSE (IF calls[1][1] \in setters THEN <<ItemOf(calls[1])>> ELSE <<>>)
         \o ItemsOf(Tail(calls), setters)

Called(calls, setter) == \E i \in DOMAIN calls : calls[i][1] = setter

(* The flags and lists of the built migration are the calls made.          *)
BuiltAsCalled(m, calls) ==
    /\ m.metadata.reversible = ~Called(calls, "non_reversible")
    /\ m.metadata.breaking_change = Called(calls, "breaking_change")
    /\ m.metadata.dependencies = ItemsOf(calls, {"depends_on"})
    /\ m.collection_changes = ItemsOf(calls, {"create_collection", "delete_collection"})
    /\ m.pact_contracts = ItemsOf(calls, {"add_pact_contract"})

RECURSIVE BuiltFrom(_, _)
BuiltFrom(m, calls) ==
    IF calls = <<>> THEN build(m)
    ELSE BuiltFrom(BuilderApply(m, calls[1]), Tail(calls))

(* The call sequences that differ from calls only in the relative order of *)
(* calls to different setters (same is "setter") or of calls that write    *)
(* different members (same is "member").                                   *)
Reorderings(calls, same) ==
    LET n == Len(calls)
        Class(c) == IF same = "setter" THEN c[1] ELSE MemberOf(c[1])
        perms == {p \in [1..n -> 1..n] :
                     /\ \A i, j \in 1..n : i # j => p[i] # p[j]
                     /\ \A i, j \in 1..n :
                           (i < j /\ Class(calls[p[i]]) = Class(calls[p[j]]))
                           => p[i] < p[j]}
    IN {[i \in 1..n |-> calls[p[i]]] : p \in perms}

OrderIndependent(same) ==
    \A other \in Reorderings(call.calls, same) :
        BuiltFrom(MigrationBuilder_new(call.migration.version, call.migration.name),
                  other) = call.migration

(* C22 as stated: build hands out a migration that is reversible unless    *)
(* non_reversible was called and non-breaking unless breaking_change was   *)
(* called, whose dependency, change and contract lists are the calls made  *)
(* in call order, and that is the same for every relative order of the     *)
(* calls to different setters.                                             *)
C22_BuiltIndependentOfSetterOrder ==
    BuilderBuilt
    => /\ BuiltAsCalled(call.migration, call.calls)
       /\ OrderIndependent("setter")

(* C22 amended: as above, but the built migration is the same for every    *)
(* relative order of calls that write different members; create_collection *)
(* and delete_collection append to the same change list, in call order.    *)
C22_BuiltIndependentOfMemberOrder ==
    BuilderBuilt
    => /\ BuiltAsCalled(call.migration, call.calls)
       /\ OrderIndependent("member")

(* Built after depends_on, create_collection and delete_collection: the    *)
(* dependency call can stand at any of three places.                       *)
C22_Witness ==
    /\ BuilderBuilt
    /\ Len(call.calls) = 3
    /\ Called(call.calls, "depends_on")
    /\ Called(call.calls, "create_collection")
    /\ Called(call.calls, "delete_collection")
    /\ Cardinality(Reorderings(call.calls, "member")) = 3
    /\ call.migration.metadata.reversible

-----------------------------------------------------------------------------
(* The in-memory store called directly, one call after the other.          *)

MockCollections == {UserCollection, "archive"}

MockIds == {"v1", "v2"}

MockCall(fn, collection, id, ret) ==
    [op |-> "mock", fn |-> fn, collection |-> collection, id |-> id,
     pre |-> Backend, ret |-> ret]

(* MockQdrantAdapter::new(): both tables empty.                            *)
MockInit ==
    /\ collections = EmptyMap
    /\ vectors = EmptyMap
    /\ call = Idle

MockCreateCollection ==
    /\ call = Idle
    /\ \E name \in MockCollections :
          LET r == create_collection(Backend, CollectionConfigNew(name, 768, "Cosine"))
          IN /\ collections' = r.b.collections
             /\ vectors' = r.b.vectors
             /\ call' = MockCall("create_collection", name, "", r)

MockDeleteCollection ==
    /\ call = Idle
    /\ \E name \in MockCollections :
          LET r == delete_collection(Backend, name)
          IN /\ collections' = r.b.collections
             /\ vectors' = r.b.vectors
             /\ call' = MockCall("delete_collection", name, "", r)

MockStoreVector ==
    /\ call = Idle
    /\ \E name \in MockCollections, id \in MockIds :
          LET r == store_vector(Backend, name, NewVector(id))
          IN /\ collections' = r.b.collections
             /\ vectors' = r.b.vectors
             /\ call' = MockCall("store_vector", name, id, r)

MockGetVector ==
    /\ call = Idle
    /\ \E name \in MockCollections, id \in MockIds :
          call' = MockCall("get_vector", name, id, get_vector(Backend, name, id))
    /\ UNCHANGED <<collections, vectors>>

MockSearchSimilar ==
    /\ call = Idle
    /\ \E name \in MockCollections :
          \E r \in search_similar(Backend, name, PactSearchLimit) :
             call' = MockCall("search_similar", name, "", r)
    /\ UNCHANGED <<collections, vectors>>

MockDeleteVector ==
    /\ call = Idle
    /\ \E name \in MockCollections, id \in MockIds :
          LET r == delete_vector(Backend, name, id)
          IN /\ collections' = r.b.collections
             /\ vectors' = r.b.vectors
             /\ call' = MockCall("delete_vector", name, id, r)

NextMock ==
    \/ MockCreateCollection
    \/ MockDeleteCollection
    \/ MockStoreVector
    \/ MockGetVector
    \/ MockSearchSimilar
    \/ MockDeleteVector
    \/ Return

SpecMock == MockInit /\ [][NextMock]_vars

-----------------------------------------------------------------------------
MockCallOf(fns) == call.op = "mock" /\ call.fn \in fns

(* The collection exists: created with create_collection and not deleted   *)
(* since.                                                                  *)
ExistedBefore(name) == name \in DOMAIN call.pre.collections

(* C23: on the in-memory store, get_vector, search_similar and             *)
(* delete_vector return an error for every collection name that does not   *)
(* exist at the call, and create_collection of an existing name returns an *)
(* error and leaves that collection's stored vectors as they were.         *)
C23_MissingCollectionIsAnError ==
    /\ (/\ MockCallOf({"get_vector", "search_similar", "delete_vector"})
        /\ ~ExistedBefore(call.collection))
       => ~call.ret.ok
    /\ (/\ MockCallOf({"create_collection"})
        /\ ExistedBefore(call.collection))
       => /\ ~call.ret.ok
          /\ call.collection \in DOMAIN vectors
          /\ call.collection \in DOMAIN call.pre.vectors
          /\ vectors[call.collection] = call.pre.vectors[call.collection]

-----------------------------------------------------------------------------
HasDelete(m) ==
    \E i \in DOMAIN m.collection_changes :
        m.collection_changes[i].kind = "DeleteCollection"

(* The position of the DeleteCollection the reverse pass meets first.      *)
LastDelete(m) ==
    CHOOSE i \in DOMAIN m.collection_changes :
        /\ m.collection_changes[i].kind = "DeleteCollection"
        /\ \A j \in DOMAIN m.collection_changes :
              m.collection_changes[j].kind = "DeleteCollection" => j <= i

(* C24: rollback_migration of a recorded reversible migration that holds a *)
(* DeleteCollection returns an error, having reversed exactly the changes  *)
(* declared after that DeleteCollection; the collections of the            *)
(* CreateCollection changes among them are gone, and the history record of *)
(* the version is still there.                                             *)
C24_RollbackWithDeleteKeepsRecord ==
    \A m \in RecordedMigrations(IF RollbackCall THEN call.pre ELSE Backend) :
        (/\ RollbackCall
         /\ m.version = call.arg
         /\ m.metadata.reversible
         /\ HasDelete(m))
        => /\ ~call.ret.ok
           /\ call.done = Len(m.collection_changes) - LastDelete(m)
           /\ \A j \in DOMAIN m.collection_changes :
                 (j > LastDelete(m) /\ m.collection_changes[j].kind = "CreateCollection")
                 => m.collection_changes[j].config.name \notin CollectionNames(Backend)
           /\ RecordOf(Backend, call.arg) = {m}

-----------------------------------------------------------------------------
(* The call is an apply_migration of a version that history already held,  *)
(* whose dependencies were all recorded and whose changes were all carried *)
(* out.                                                                    *)
ReappliedThroughGates ==
    /\ AppliedCall
    /\ RecordOf(call.pre, call.arg.version) # {}
    /\ MissingDependencies(call.pre, call.arg) = {}
    /\ Len(call.done) = Len(call.arg.collection_changes)

(* C25: apply_migration of a version that is already in history, when its  *)
(* gates and changes succeed, returns success, leaves under that version   *)
(* the payload of the new migration and no more history records than       *)
(* before.                                                                 *)
C25_ReapplyReplacesRecord ==
    ReappliedThroughGates
    => /\ call.ret.ok
       /\ RecordOf(Backend, call.arg.version) = {call.arg}
       /\ Cardinality(RecordedMigrations(Backend))
             <= Cardinality(RecordedMigrations(call.pre))

(* A version re-applied with other changes than the ones recorded, next to *)
(* the record of another version.                                          *)
C25_Witness ==
    /\ ReappliedThroughGates
    /\ call.ret.ok
    /\ RecordOf(call.pre, call.arg.version) # {call.arg}
    /\ RecordOf(Backend, call.arg.version) = {call.arg}
    /\ Cardinality(RecordedMigrations(Backend)) = 2

-----------------------------------------------------------------------------
(* The history scan on a long history: the tracking collection as it is    *)
(* after HistoryLimit, or one more, migrations were applied and recorded.  *)

RecordOfIndex(i) ==
    VectorWithMetadata(
        VersionToString(VersionOf(i)),
        [migration |-> SerializeMigration(
                           Migration(VersionOf(i), <<>>, <<>>, TRUE, <<>>)),
         type |-> "schema_migration"])

LongHistory(n) ==
    LET records == {RecordOfIndex(i) : i \in 1..n}
    IN [id \in {r.id : r \in records} |-> CHOOSE r \in records : r.id = id]

LongHistoryInit ==
    /\ \E n \in {HistoryLimit, HistoryLimit + 1} :
          vectors = [c \in {migration_collection} |-> LongHistory(n)]
    /\ collections = [c \in {migration_collection} |->
                         CollectionConfigNew(migration_collection, 256, "Cosine")]
    /\ call = Idle

(* The search of get_migration_history: what the scan sees of the          *)
(* tracking collection.                                                    *)
HistoryScan ==
    /\ call = Idle
    /\ \E r \in search_similar(Backend, migration_collection, HistoryLimit) :
          call' = [op |-> "history_scan", arg |-> <<>>,
                   seen |-> IF r.ok THEN Cardinality(r.value) ELSE 0,
                   left_out |-> IF r.ok
                                THEN {v.id : v \in Range(vectors[migration_collection])
                                                     \ r.value}
                                ELSE {}]
    /\ UNCHANGED <<collections, vectors>>

NextLongHistory ==
    \/ HistoryScan
    \/ Return

SpecLongHistory == LongHistoryInit /\ [][NextLongHistory]_vars

-----------------------------------------------------------------------------
(* C26: the scan of get_migration_history sees every record of the         *)
(* tracking collection however many there are: no record is left out       *)
(* because of a result limit.                                              *)
C26_ScanSeesEveryRecord ==
    call.op = "history_scan"
    => /\ call.left_out = {}
       /\ call.seen = Cardinality(DOMAIN vectors[migration_collection])

-----------------------------------------------------------------------------
DependenciesOf(m) ==
    {m.metadata.dependencies[i] : i \in DOMAIN m.metadata.dependencies}

(* Every recorded migration has all its dependencies recorded.             *)
DependenciesRecorded(b) ==
    \A m \in RecordedMigrations(b) : DependenciesOf(m) \subseteq RecordedVersions(b)

(* The recorded migrations, other than the one of version, that list       *)
(* version as a dependency.                                                *)
DependentsOf(b, version) ==
    {d \in RecordedMigrations(b) :
        d.version # version /\ version \in DependenciesOf(d)}

(* The reverse of every change of m succeeds and leaves the tracking       *)
(* collection alone.                                                       *)
Reversible(m) ==
    /\ m.metadata.reversible
    /\ ~HasDelete(m)
    /\ \A i \in DOMAIN m.collection_changes :
          m.collection_changes[i].kind = "CreateCollection"
          => m.collection_changes[i].config.name # migration_collection

(* C27: rollback_migration(v) of a recorded migration that can be reversed *)
(* succeeds while history holds a migration that lists v as a dependency,  *)
(* and that dependent stays recorded; and a successful apply_migration on  *)
(* a history in which every recorded migration has its dependencies        *)
(* recorded leaves such a history.                                         *)
C27_ApplyKeepsDependenciesRecorded ==
    /\ \A m \in RecordedMigrations(IF RollbackCall THEN call.pre ELSE Backend) :
          (/\ RollbackCall
           /\ m.version = call.arg
           /\ Reversible(m)
           /\ DependentsOf(call.pre, call.arg) # {})
          => /\ call.ret.ok
             /\ RecordOf(Backend, call.arg) = {}
             /\ DependentsOf(call.pre, call.arg) \subseteq RecordedMigrations(Backend)
             /\ ~DependenciesRecorded(Backend)
    /\ (/\ AppliedCall
        /\ call.ret.ok
        /\ DependenciesRecorded(call.pre))
       => DependenciesRecorded(Backend)

-----------------------------------------------------------------------------
(* The call applied, with success, a reversible migration without          *)
(* contracts whose changes are all CreateCollection of names that did not  *)
(* exist before the call.                                                  *)
AppliedFreshCreates ==
    /\ AppliedCall
    /\ call.ret.ok
    /\ call.arg.metadata.reversible
    /\ call.arg.pact_contracts = <<>>
    /\ OnlyCreates(call.arg)
    /\ CreatedNames(call.arg) \cap CollectionNames(call.pre) = {}

(* rollback_migration of the version just applied succeeds and leaves the  *)
(* backend the apply started from.                                         *)
RollbackRestores ==
    LET r == rollback_migration(Backend, call.arg.version)
    IN r.ok /\ r.b = call.pre

-----------------------------------------------------------------------------
(* C30: search_similar on the in-memory store returns at most params.limit *)
(* records, for every limit >= 0, and the metadata of every returned       *)
(* record equals the filter value on every filtered field.                 *)
C30_AtMostLimitAndAllMatch ==
    (SearchSimilarCall /\ call.ret.ok)
    => /\ Cardinality(call.ret.value) <= call.done
       /\ \A v \in call.ret.value :
             \A key \in DOMAIN call.arg :
                /\ key \in DOMAIN v.metadata
                /\ v.metadata[key] = call.arg[key]

-----------------------------------------------------------------------------
(* The in-memory store called from several tasks at once.  In this         *)
(* specification call holds, for each task, the call it is in and how many *)
(* of its locks it holds, and for each of the two mutexes its owner (0     *)
(* when free).                                                             *)

NumTasks == 2

Tasks == 1..NumTasks

(* delete_collection taking the vector table first.                        *)
LockOrder_DeleteTakesVectorsFirst(fn) ==
    CASE fn = "create_collection" -> <<"collections", "vectors">>
      [] fn = "delete_collection" -> <<"vectors", "collections">>
      [] fn = "store_vector" -> <<"vectors">>

(* The mutexes a call locks, in the order in which it locks them.          *)
LockOrder(fn) ==
    CASE fn = "create_collection" -> <<"collections", "vectors">>
      [] fn = "delete_collection" -> <<"collections", "vectors">>
      [] fn = "store_vector" -> <<"vectors">>

NotInCall == [fn |-> "none", name |-> "", held |-> 0, checked |-> FALSE]

LocksInit ==
    /\ collections = EmptyMap
    /\ vectors = EmptyMap
    /\ call = [op |-> "locks",
               task |-> [t \in Tasks |-> NotInCall],
               owner |-> [collections |-> 0, vectors |-> 0]]

Released(t) ==
    [call EXCEPT !.task[t] = NotInCall,
                 !.owner = [m \in DOMAIN call.owner |->
                               IF call.owner[m] = t THEN 0 ELSE call.owner[m]]]

(* A task enters create_collection, delete_collection or store_vector.     *)
StartCall(t) ==
    /\ call.task[t] = NotInCall
    /\ \E fn \in {"create_collection", "delete_collection", "store_vector"},
          name \in MockCollections :
            call' = [call EXCEPT !.task[t] = [fn |-> fn, name |-> name,
                                              held |-> 0, checked |-> FALSE]]
    /\ UNCHANGED <<collections, vectors>>

(* self.collections.lock() / self.vectors.lock(): the task takes the next  *)
(* mutex of its call once that mutex is free.                              *)
Lock(t) ==
    LET c == call.task[t]
    IN /\ c.fn # "none"
       /\ c.held < Len(LockOrder(c.fn))
       /\ c.fn = "create_collection" /\ c.held = 1 => c.checked
       /\ call.owner[LockOrder(c.fn)[c.held + 1]] = 0
       /\ call' = [call EXCEPT !.task[t].held = c.held + 1,
                               !.owner[LockOrder(c.fn)[c.held + 1]] = t]
       /\ UNCHANGED <<collections, vectors>>

(* create_collection under the collection table lock: the early return     *)
(* for a name that is there, the insert otherwise.                         *)
CreateCheck(t) ==
    LET c == call.task[t]
    IN /\ c.fn = "create_collection"
       /\ c.held = 1
       /\ ~c.checked
       /\ IF c.name \in DOMAIN collections
          THEN /\ call' = Released(t)
               /\ UNCHANGED <<collections, vectors>>
          ELSE /\ collections' = Put(collections, c.name,
                                     CollectionConfigNew(c.name, 768, "Cosine"))
               /\ call' = [call EXCEPT !.task[t].checked = TRUE]
               /\ UNCHANGED vectors

(* create_collection under both locks: the empty vector storage.           *)
CreateInsert(t) ==
    LET c == call.task[t]
    IN /\ c.fn = "create_collection"
       /\ c.held = 2
       /\ vectors' = Put(vectors, c.name, EmptyMap)
       /\ call' = Released(t)
       /\ UNCHANGED collections

(* delete_collection under both locks.                                     *)
DeleteRemove(t) ==
    LET c == call.task[t]
    IN /\ c.fn = "delete_collection"
       /\ c.held = 2
       /\ collections' = Remove(collections, c.name)
       /\ vectors' = Remove(vectors, c.name)
       /\ call' = Released(t)

(* store_vector under the vector table lock.                               *)
StoreInsert(t) ==
    LET c == call.task[t]
    IN /\ c.fn = "store_vector"
       /\ c.held = 1
       /\ \E id \in MockIds :
             vectors' = store_vector(Backend, c.name, NewVector(id)).b.vectors
       /\ call' = Released(t)
       /\ UNCHANGED collections

NextLocks ==
    \E t \in Tasks :
        \/ StartCall(t)
        \/ Lock(t)
        \/ CreateCheck(t)
        \/ CreateInsert(t)
        \/ DeleteRemove(t)
        \/ StoreInsert(t)

SpecLocks == LocksInit /\ [][NextLocks]_vars

-----------------------------------------------------------------------------
InCall(t) == call.task[t].fn # "none"

(* The mutex task t is about to lock, if it is about to lock one.          *)
WaitsFor(t) ==
    LET c == call.task[t]
    IN IF /\ InCall(t)
          /\ c.held < Len(LockOrder(c.fn))
          /\ (c.fn = "create_collection" /\ c.held = 1) => c.checked
       THEN {LockOrder(c.fn)[c.held + 1]}
       ELSE {}

(* Task t is not kept waiting by a mutex another task holds.               *)
CanMove(t) == \A m \in WaitsFor(t) : call.owner[m] = 0

(* C29: concurrent calls of create_collection, delete_collection and       *)
(* store_vector never deadlock: while tasks are in a call, one of them can *)
(* take its next step; and once no task is in a call, every name in the    *)
(* collection table has an entry in the vector table.                      *)
C29_NoDeadlockAndTablesAgree ==
    call.op = "locks"
    => /\ (\E t \in Tasks : InCall(t))
          => \E t \in Tasks : InCall(t) /\ CanMove(t)
       /\ (\A t \in Tasks : ~InCall(t))
          => DOMAIN collections \subseteq DOMAIN vectors

(* A create_collection that holds the collection table waits for the       *)
(* vector table, which a store_vector of another task holds, while the     *)
(* name is in the collection table only.                                   *)
C29_Witness ==
    /\ call.op = "locks"
    /\ \E t, u \in Tasks :
          /\ call.task[t].fn = "create_collection"
          /\ call.owner.collections = t
          /\ WaitsFor(t) = {"vectors"}
          /\ call.task[u].fn = "store_vector"
          /\ call.owner.vectors = u
          /\ call.task[t].name \in DOMAIN collections
          /\ call.task[t].name \notin DOMAIN vectors

====
